---- MODULE Spec2Model ----
(***************************************************************************)
(* A model of astrbot_plugin_video_generate_tool: the provider-agnostic    *)
(* video API client (video_api.py) and the plugin's submit-and-wait flow   *)
(* with its polling loop, task cache and key-value store (main.py).        *)
(*                                                                         *)
(* A Python str is a sequence of one-character strings, so that strip(),   *)
(* lower(), the path tokenizer and string formatting are computed and not  *)
(* assumed.  A decoded JSON value is a tagged record (JNull, JStr, JNum,   *)
(* JObj, JArr); Python's None is JNull.                                    *)
(***************************************************************************)
EXTENDS Integers, Sequences, FiniteSets, TLC

VARIABLES
    config,              \* the plugin's configuration
    pc,                  \* position of the video_gen handler
    prompt,              \* video_gen: the prompt argument
    provider,            \* the ProviderConfig resolved by video_gen
    attempts,            \* _wait_for_result: max(int(max_poll_attempts), 1)
    submit_snapshot,     \* video_gen: the snapshot returned by submit
    latest,              \* _wait_for_result: the latest snapshot
    consecutive_errors,  \* _wait_for_result: the transient-error counter
    attempt,             \* _wait_for_result: the loop index
    final_snapshot,      \* video_gen: what _wait_for_result returned
    exit_line,           \* the return statement _wait_for_result left by
    reply,               \* the kind of message video_gen yields last
    task_cache,          \* self._task_cache, oldest entry first
    kv_store,            \* the plugin's key-value store
    queries,             \* history: the outcome of every query of the run
    sleeps,              \* history: the number of asyncio.sleep calls
    submits,             \* history: the number of submit requests issued
    arg,                 \* the inputs of a pure-function check
    out                  \* the results of a pure-function check

vars == <<config, pc, prompt, provider, attempts, submit_snapshot, latest, consecutive_errors,
          attempt, final_snapshot, exit_line, reply, task_cache, kv_store,
          queries, sleeps, submits, arg, out>>

-----------------------------------------------------------------------------
(* Strings *)

EmptyStr == <<>>

Whitespace == {" ", "\t", "\n", "\r"}

UpperCase == <<"A","B","C","D","E","F","G","H","I","J","K","L","M",
               "N","O","P","Q","R","S","T","U","V","W","X","Y","Z">>
LowerCase == <<"a","b","c","d","e","f","g","h","i","j","k","l","m",
               "n","o","p","q","r","s","t","u","v","w","x","y","z">>

UpperSet == {UpperCase[i] : i \in DOMAIN UpperCase}

LowerOf == [c \in UpperSet |-> LowerCase[CHOOSE i \in DOMAIN UpperCase : UpperCase[i] = c]]

LowerChar(c) == IF c \in UpperSet THEN LowerOf[c] ELSE c

\* str.lower()
lower(s) == [i \in DOMAIN s |-> LowerChar(s[i])]

RECURSIVE lstrip(_)
lstrip(s) ==
    IF s # <<>> /\ Head(s) \in Whitespace THEN lstrip(Tail(s)) ELSE s

RECURSIVE rstrip(_)
rstrip(s) ==
    IF s # <<>> /\ s[Len(s)] \in Whitespace
    THEN rstrip(SubSeq(s, 1, Len(s) - 1))
    ELSE s

\* str.strip()
strip(s) == rstrip(lstrip(s))

DigitChars == <<"0","1","2","3","4","5","6","7","8","9">>

IsDigit(c) == \E i \in DOMAIN DigitChars : DigitChars[i] = c

DigitValue(c) == (CHOOSE i \in DOMAIN DigitChars : DigitChars[i] = c) - 1

\* int(text) of a run of decimal digits
RECURSIVE ParseInt(_)
ParseInt(s) ==
    IF s = <<>> THEN 0
    ELSE 10 * ParseInt(SubSeq(s, 1, Len(s) - 1)) + DigitValue(s[Len(s)])

\* str(n) of a non-negative integer
RECURSIVE FormatInt(_)
FormatInt(n) ==
    IF n < 10 THEN <<DigitChars[n + 1]>>
    ELSE FormatInt(n \div 10) \o <<DigitChars[(n % 10) + 1]>>

-----------------------------------------------------------------------------
(* Decoded JSON values *)

JNull == [t |-> "null"]
JStr(s) == [t |-> "str", s |-> s]
JNum(n) == [t |-> "num", n |-> n]
JObj(f) == [t |-> "obj", f |-> f]
JArr(a) == [t |-> "arr", a |-> a]

IsMapping(v) == v.t = "obj"
IsList(v) == v.t = "arr"

\* Python truthiness of a decoded value
Truthy(v) ==
    CASE v.t = "null" -> FALSE
      [] v.t = "str" -> v.s # <<>>
      [] v.t = "num" -> v.n # 0
      [] v.t = "obj" -> DOMAIN v.f # {}
      [] v.t = "arr" -> v.a # <<>>

-----------------------------------------------------------------------------
(* video_api.py: the JSON path extractor *)

PathDelims == {"[", "]", "."}

\* the end of the longest run of non-delimiter characters starting at i
RECURSIVE KeyEnd(_, _)
KeyEnd(path, i) ==
    IF i <= Len(path) /\ path[i] \notin PathDelims THEN KeyEnd(path, i + 1) ELSE i

\* the end of the longest run of digits starting at i
RECURSIVE DigitsEnd(_, _)
DigitsEnd(path, i) ==
    IF i <= Len(path) /\ IsDigit(path[i]) THEN DigitsEnd(path, i + 1) ELSE i

\* _JSON_PATH_TOKEN.finditer(path) from position i: at each position the key
\* alternative ([^[\].]+) is tried first, then the index alternative \[(\d+)\];
\* a position where neither matches is skipped.
RECURSIVE TokensFrom(_, _)
TokensFrom(path, i) ==
    IF i > Len(path) THEN <<>>
    ELSE IF path[i] \notin PathDelims
    THEN LET j == KeyEnd(path, i)
         IN  <<[key |-> SubSeq(path, i, j - 1), isKey |-> TRUE]>> \o TokensFrom(path, j)
    ELSE IF path[i] = "["
    THEN LET j == DigitsEnd(path, i + 1)
         IN  IF j > i + 1 /\ j <= Len(path) /\ path[j] = "]"
             THEN <<[key |-> SubSeq(path, i + 1, j - 1), isKey |-> FALSE]>>
                      \o TokensFrom(path, j + 1)
             ELSE TokensFrom(path, i + 1)
    ELSE TokensFrom(path, i + 1)

_JSON_PATH_TOKEN(path) == TokensFrom(path, 1)

\* indices count from one
RECURSIVE WalkOneBased(_, _)
WalkOneBased(current, tokens) ==
    IF tokens = <<>> THEN current
    ELSE LET token == Head(tokens)
             next ==
                 IF token.isKey
                 THEN IF ~IsMapping(current) THEN JNull
                      ELSE IF token.key \in DOMAIN current.f
                           THEN current.f[token.key] ELSE JNull
                 ELSE IF ~IsList(current) THEN JNull
                      ELSE LET idx == ParseInt(token.key)
                           IN  IF idx < 1 \/ idx > Len(current.a) THEN JNull
                               ELSE current.a[idx]
         IN  IF next = JNull THEN JNull ELSE WalkOneBased(next, Tail(tokens))

\* the loop body of extract_json_path over the remaining tokens
RECURSIVE Walk(_, _)
Walk(current, tokens) ==
    IF tokens = <<>> THEN current
    ELSE LET token == Head(tokens)
             next ==
                 IF token.isKey
                 THEN IF ~IsMapping(current) THEN JNull
                      ELSE IF token.key \in DOMAIN current.f
                           THEN current.f[token.key] ELSE JNull
                 ELSE IF ~IsList(current) THEN JNull
                      ELSE LET idx == ParseInt(token.key)
                           IN  IF idx < 0 \/ idx >= Len(current.a) THEN JNull
                               ELSE current.a[idx + 1]
         IN  IF next = JNull THEN JNull ELSE Walk(next, Tail(tokens))

extract_json_path(payload, path) ==
    IF path = <<>> THEN JNull ELSE Walk(payload, _JSON_PATH_TOKEN(path))

-----------------------------------------------------------------------------
(* String literals of the source *)

S_id == <<"i","d">>
S_status == <<"s","t","a","t","u","s">>
S_output == <<"o","u","t","p","u","t">>
S_url == <<"u","r","l">>
S_error == <<"e","r","r","o","r">>
S_message == <<"m","e","s","s","a","g","e">>
S_raw_text == <<"r","a","w","_","t","e","x","t">>
S_data == <<"d","a","t","a">>
S_prompt == <<"p","r","o","m","p","t">>
S_model == <<"m","o","d","e","l">>
S_duration == <<"d","u","r","a","t","i","o","n">>
S_aspect_ratio == <<"a","s","p","e","c","t","_","r","a","t","i","o">>
S_unknown == <<"u","n","k","n","o","w","n">>
S_GET == <<"G","E","T">>
S_POST == <<"P","O","S","T">>
S_output_url == <<"o","u","t","p","u","t","[","0","]",".","u","r","l">>
S_error_message == <<"e","r","r","o","r",".","m","e","s","s","a","g","e">>
S_submit_path == <<"/","v","1","/","v","i","d","e","o","s">>
S_status_path == <<"/","v","1","/","v","i","d","e","o","s","/","{","t","a","s","k","_","i","d","}">>
S_succeeded == <<"s","u","c","c","e","e","d","e","d">>
S_completed == <<"c","o","m","p","l","e","t","e","d">>
S_success == <<"s","u","c","c","e","s","s">>
S_done == <<"d","o","n","e">>
S_finished == <<"f","i","n","i","s","h","e","d">>
S_failed == <<"f","a","i","l","e","d">>
S_cancelled == <<"c","a","n","c","e","l","l","e","d">>
S_canceled == <<"c","a","n","c","e","l","e","d">>
S_rejected == <<"r","e","j","e","c","t","e","d">>

\* The texts of the VideoApiError messages, abridged to ASCII: the source's
\* literals are Chinese sentences; what is formatted into them is kept.
MSG_REQUEST_FAILED == <<"r","e","q","u","e","s","t",":"," ">>
MSG_EMPTY_BODY == <<"e","m","p","t","y"," ","b","o","d","y"," ","H","T","T","P"," ">>
MSG_HTTP_ERROR == <<"H","T","T","P"," ">>
MSG_DETAIL == <<","," ","d","e","t","a","i","l","=">>
MSG_NO_DETAIL == <<"-">>
MSG_NO_TASK_ID == <<"n","o"," ","i","d","/","u","r","l",":"," ">>

-----------------------------------------------------------------------------
(* video_api.py: text conversion *)

RECURSIVE JoinWith(_, _)
JoinWith(parts, sep) ==
    IF parts = <<>> THEN <<>>
    ELSE IF Len(parts) = 1 THEN parts[1]
    ELSE parts[1] \o sep \o JoinWith(Tail(parts), sep)

\* The keys of a dict in iteration order.  The model's objects are unordered
\* maps, so the order is a fixed arbitrary one.
RECURSIVE KeysOf(_)
KeysOf(S) ==
    IF S = {} THEN <<>>
    ELSE LET k == CHOOSE k \in S : TRUE IN <<k>> \o KeysOf(S \ {k})

\* Python's repr() of a decoded value (escapes in strings left out)
RECURSIVE repr(_)
repr(v) ==
    CASE v.t = "null" -> <<"N","o","n","e">>
      [] v.t = "str" -> <<"'">> \o v.s \o <<"'">>
      [] v.t = "num" -> FormatInt(v.n)
      [] v.t = "obj" ->
            LET ks == KeysOf(DOMAIN v.f)
            IN  <<"{">> \o JoinWith([i \in DOMAIN ks |->
                           repr(JStr(ks[i])) \o <<":"," ">> \o repr(v.f[ks[i]])],
                                    <<","," ">>) \o <<"}">>
      [] v.t = "arr" ->
            <<"[">> \o JoinWith([i \in DOMAIN v.a |-> repr(v.a[i])], <<","," ">>)
                \o <<"]">>

_as_text(value, default) ==
    IF value = JNull THEN default
    ELSE IF value.t = "str" THEN value.s
    ELSE repr(value)

-----------------------------------------------------------------------------
(* video_api.py: ProviderConfig and TaskSnapshot *)

\* ProviderConfig with the dataclass's defaults
ProviderConfig(provider_id, base_url) ==
    [provider_id |-> provider_id,
     base_url |-> base_url,
     api_key |-> EmptyStr,
     model |-> EmptyStr,
     submit_path |-> S_submit_path,
     status_path_template |-> S_status_path,
     submit_method |-> S_POST,
     status_method |-> S_GET,
     prompt_field |-> S_prompt,
     model_field |-> S_model,
     task_id_field |-> S_id,
     status_field |-> S_status,
     output_url_field |-> S_output_url,
     error_field |-> S_error_message,
     done_values |-> <<S_succeeded, S_completed, S_success, S_done, S_finished>>,
     failed_values |-> <<S_failed, S_error, S_cancelled, S_canceled, S_rejected>>,
     extra_headers |-> <<>>,
     extra_body |-> <<>>,
     status_request_id_field |-> EmptyStr,
     duration_field |-> S_duration,
     aspect_ratio_field |-> S_aspect_ratio]

TaskSnapshot(provider_id, task_id, status, video_url, error_message, raw) ==
    [provider_id |-> provider_id,
     task_id |-> task_id,
     status |-> status,
     video_url |-> video_url,
     error_message |-> error_message,
     raw |-> raw]

\* A call that returns a value, and one that raises VideoApiError(message)
Return(value) == [ok |-> TRUE, value |-> value]
VideoApiError(message) == [ok |-> FALSE, error |-> message]

-----------------------------------------------------------------------------
(* video_api.py: the HTTP protocol layer *)

\* json.dumps: the text a server sends for a JSON body
RECURSIVE json_dumps(_)
json_dumps(v) ==
    CASE v.t = "null" -> <<"n","u","l","l">>
      [] v.t = "str" -> <<"\"">> \o v.s \o <<"\"">>
      [] v.t = "num" -> FormatInt(v.n)
      [] v.t = "obj" ->
            LET ks == KeysOf(DOMAIN v.f)
            IN  <<"{">> \o JoinWith([i \in DOMAIN ks |->
                           json_dumps(JStr(ks[i])) \o <<":">> \o json_dumps(v.f[ks[i]])],
                                    <<",">>) \o <<"}">>
      [] v.t = "arr" ->
            <<"[">> \o JoinWith([i \in DOMAIN v.a |-> json_dumps(v.a[i])], <<",">>)
                \o <<"]">>

\* What the transport hands back: httpx raised (kind "exc"), or a response with
\* a status code and a body text; resp.json() gives the value the text encodes,
\* or raises ValueError for a text that is not JSON.
HttpError(exc) == [kind |-> "exc", exc |-> exc]
JsonResponse(status_code, value) ==
    [kind |-> "http", status_code |-> status_code, text |-> json_dumps(value),
     is_json |-> TRUE, json |-> value]
TextResponse(status_code, text) ==
    [kind |-> "http", status_code |-> status_code, text |-> text,
     is_json |-> FALSE, json |-> JNull]

\* the body text is taken as it came, without strip()
RequestJsonUnstripped(resp, error_path) ==
    IF resp.kind = "exc" THEN VideoApiError(MSG_REQUEST_FAILED \o resp.exc)
    ELSE
    LET text == resp.text
        payload ==
            IF text # <<>>
            THEN IF resp.is_json THEN resp.json
                 ELSE JObj(S_raw_text :> JStr(text))
            ELSE JObj(<<>>)
    IN  IF text = <<>> /\ resp.status_code < 400
        THEN VideoApiError(MSG_EMPTY_BODY \o FormatInt(resp.status_code))
        ELSE IF resp.status_code >= 400
        THEN LET detail ==
                     IF Truthy(payload)
                     THEN _as_text(extract_json_path(payload, error_path), EmptyStr)
                     ELSE text
             IN  VideoApiError(MSG_HTTP_ERROR \o FormatInt(resp.status_code) \o MSG_DETAIL
                               \o (IF detail # <<>> THEN detail ELSE MSG_NO_DETAIL))
        ELSE IF IsMapping(payload) THEN Return(payload)
        ELSE Return(JObj(S_data :> payload))

_request_json(resp, error_path) ==
    IF resp.kind = "exc" THEN VideoApiError(MSG_REQUEST_FAILED \o resp.exc)
    ELSE
    LET text == strip(resp.text)
        payload ==
            IF text # <<>>
            THEN IF resp.is_json THEN resp.json
                 ELSE JObj(S_raw_text :> JStr(text))
            ELSE JObj(<<>>)
    IN  IF text = <<>> /\ resp.status_code < 400
        THEN VideoApiError(MSG_EMPTY_BODY \o FormatInt(resp.status_code))
        ELSE IF resp.status_code >= 400
        THEN LET detail ==
                     IF Truthy(payload)
                     THEN _as_text(extract_json_path(payload, error_path), EmptyStr)
                     ELSE text
             IN  VideoApiError(MSG_HTTP_ERROR \o FormatInt(resp.status_code) \o MSG_DETAIL
                               \o (IF detail # <<>> THEN detail ELSE MSG_NO_DETAIL))
        ELSE IF IsMapping(payload) THEN Return(payload)
        ELSE Return(JObj(S_data :> payload))

\* the snapshot is built without the check for a task id or a video_url
SnapshotUnchecked(prov, payload, fallback_task_id) ==
    LET extracted == _as_text(extract_json_path(payload, prov.task_id_field), EmptyStr)
    IN  Return(TaskSnapshot(
            prov.provider_id,
            IF extracted = <<>> THEN fallback_task_id ELSE extracted,
            _as_text(extract_json_path(payload, prov.status_field), S_unknown),
            _as_text(extract_json_path(payload, prov.output_url_field), EmptyStr),
            _as_text(extract_json_path(payload, prov.error_field), EmptyStr),
            payload))

_snapshot_from_payload(prov, payload, fallback_task_id) ==
    LET extracted == _as_text(extract_json_path(payload, prov.task_id_field), EmptyStr)
        task_id == IF extracted = <<>> THEN fallback_task_id ELSE extracted
        status == _as_text(extract_json_path(payload, prov.status_field), S_unknown)
        video_url == _as_text(extract_json_path(payload, prov.output_url_field), EmptyStr)
        error_message == _as_text(extract_json_path(payload, prov.error_field), EmptyStr)
    IN  IF task_id = <<>> /\ video_url = <<>>
        THEN VideoApiError(MSG_NO_TASK_ID \o prov.provider_id)
        ELSE Return(TaskSnapshot(prov.provider_id, task_id, status, video_url,
                                 error_message, payload))

\* a transport failure is turned into a snapshot instead of an error
SubmitHidingTransportError(prov, resp) ==
    IF resp.kind = "exc"
    THEN Return(TaskSnapshot(prov.provider_id, prov.provider_id, S_unknown, EmptyStr,
                             resp.exc, JObj(<<>>)))
    ELSE LET data == _request_json(resp, prov.error_field)
         IN  IF ~data.ok THEN data
             ELSE _snapshot_from_payload(prov, data.value, EmptyStr)

\* VideoApiClient.submit, given the response the request receives
submit(prov, resp) ==
    LET data == _request_json(resp, prov.error_field)
    IN  IF ~data.ok THEN data ELSE _snapshot_from_payload(prov, data.value, EmptyStr)

\* the supplied task id is not handed on as the fallback
QueryWithoutFallback(prov, task_id, resp) ==
    LET data == _request_json(resp, prov.error_field)
    IN  IF ~data.ok THEN data ELSE _snapshot_from_payload(prov, data.value, EmptyStr)

\* VideoApiClient.query, given the response the request receives
query(prov, task_id, resp) ==
    LET data == _request_json(resp, prov.error_field)
    IN  IF ~data.ok THEN data ELSE _snapshot_from_payload(prov, data.value, task_id)

-----------------------------------------------------------------------------
(* main.py: terminal detection and failure classification *)

InList(x, list) == \E i \in DOMAIN list : list[i] = x

LowerAll(list) == [i \in DOMAIN list |-> lower(list[i])]

\* the status alone decides, the video_url is not looked at
IsTerminalByStatusOnly(prov, snapshot) ==
    LET status == lower(strip(snapshot.status))
    IN  InList(status, LowerAll(prov.done_values))
            \/ InList(status, LowerAll(prov.failed_values))

\* the status is compared as it came, untrimmed
IsTerminalUntrimmed(prov, snapshot) ==
    IF snapshot.video_url # <<>> THEN TRUE
    ELSE LET status == lower(snapshot.status)
         IN  InList(status, LowerAll(prov.done_values))
                 \/ InList(status, LowerAll(prov.failed_values))

_is_terminal(prov, snapshot) ==
    IF snapshot.video_url # <<>> THEN TRUE
    ELSE LET status == lower(strip(snapshot.status))
             done == LowerAll(prov.done_values)
             failed == LowerAll(prov.failed_values)
         IN  InList(status, done) \/ InList(status, failed)

\* any error message counts as a failure, whatever the status
IsFailedOnAnyErrorMessage(prov, snapshot) ==
    LET status == lower(strip(snapshot.status))
    IN  IF InList(status, LowerAll(prov.failed_values)) THEN TRUE
        ELSE snapshot.error_message # <<>> /\ snapshot.video_url = <<>>

_is_failed(prov, snapshot) ==
    LET status == lower(strip(snapshot.status))
        failed == LowerAll(prov.failed_values)
        done == LowerAll(prov.done_values)
        is_terminal_status == InList(status, done) \/ InList(status, failed)
    IN  IF InList(status, failed) THEN TRUE
        ELSE is_terminal_status /\ snapshot.error_message # <<>>
                 /\ snapshot.video_url = <<>>

-----------------------------------------------------------------------------
(* Bounds and the environment: what the user types and what servers answer *)

\* the largest max_poll_attempts a configuration sets
MaxPollAttempts == 4

\* int(time.time()): the value is written to a record's updated_at and is
\* read nowhere
Times == {0}

S_t1 == <<"t","1">>
S_t2 == <<"t","2">>
S_p1 == <<"p","1">>
S_p2 == <<"p","2">>
S_base1 == <<"h","t","t","p","s",":","/","/","a">>
S_base2 == <<"h","t","t","p","s",":","/","/","b">>
S_video_url == <<"h","t","t","p","s",":","/","/","x","/","v",".","m","p","4">>
S_timeout == <<"t","i","m","e","o","u","t">>
S_boom == <<"b","o","o","m">>
S_nsfw == <<"n","s","f","w">>
S_OK == <<"O","K">>
S_cat == <<"c","a","t">>
S_queued == <<"q","u","e","u","e","d">>
S_processing == <<"p","r","o","c","e","s","s","i","n","g">>
S_Ready == <<"R","e","a","d","y">>
S_Broken == <<"B","r","o","k","e","n">>
S_READY_padded == <<" ","R","E","A","D","Y"," ">>

PayloadQueued == JObj((S_id :> JStr(S_t1)) @@ (S_status :> JStr(S_queued)))
PayloadNoStatus == JObj(S_id :> JStr(S_t1))
PayloadEmptyStatus == JObj((S_id :> JStr(S_t1)) @@ (S_status :> JStr(EmptyStr)))
PayloadProcessing == JObj((S_id :> JStr(S_t1)) @@ (S_status :> JStr(S_processing)))
PayloadSucceeded ==
    JObj((S_id :> JStr(S_t1)) @@ (S_status :> JStr(S_succeeded))
         @@ (S_output :> JArr(<<JObj(S_url :> JStr(S_video_url))>>)))
PayloadFailed ==
    JObj((S_status :> JStr(S_failed))
         @@ (S_error :> JObj(S_message :> JStr(S_nsfw))))
PayloadReady == JObj((S_id :> JStr(S_t1)) @@ (S_status :> JStr(S_READY_padded)))
PayloadUrlOnly == JObj(S_output :> JArr(<<JObj(S_url :> JStr(S_video_url))>>))
PayloadStatusOnly == JObj(S_status :> JStr(S_queued))
PayloadError == JObj(S_error :> JObj(S_message :> JStr(S_boom)))
\* a body that names the task by another id than the one asked for
PayloadFailedWithUrl ==
    JObj((S_id :> JStr(S_t2)) @@ (S_status :> JStr(S_failed))
         @@ (S_output :> JArr(<<JObj(S_url :> JStr(S_video_url))>>)))

SubmitResponses ==
    {HttpError(S_timeout),
     JsonResponse(500, PayloadError),
     TextResponse(200, EmptyStr),
     TextResponse(200, S_OK),
     JsonResponse(200, PayloadQueued),
     JsonResponse(200, PayloadNoStatus),
     JsonResponse(200, PayloadEmptyStatus),
     JsonResponse(200, PayloadReady),
     JsonResponse(200, PayloadSucceeded),
     JsonResponse(200, PayloadUrlOnly),
     JsonResponse(200, PayloadStatusOnly)}

QueryResponses ==
    {HttpError(S_timeout),
     JsonResponse(500, PayloadError),
     JsonResponse(200, PayloadProcessing),
     JsonResponse(200, PayloadFailed),
     JsonResponse(200, PayloadReady),
     JsonResponse(200, PayloadSucceeded),
     JsonResponse(200, PayloadFailedWithUrl)}

\* the provider map self._providers, in declaration order: one provider with
\* the default vocabularies and one with its own
_providers ==
    <<ProviderConfig(S_p1, S_base1),
      [ProviderConfig(S_p2, S_base2) EXCEPT
          !.done_values = <<S_Ready>>, !.failed_values = <<S_Broken>>]>>

ProviderIdInputs == {S_p1, <<" ">> \o S_p2, S_boom, EmptyStr}

Configs ==
    [max_poll_attempts : 0 .. MaxPollAttempts, default_provider_id : {S_p2}]

None == JNull

Max(a, b) == IF a >= b THEN a ELSE b

-----------------------------------------------------------------------------
(* main.py: provider lookup, task cache and key-value store *)

\* self._providers.get(provider_id)
ProviderGet(provider_id) ==
    IF \E i \in DOMAIN _providers : _providers[i].provider_id = provider_id
    THEN _providers[CHOOSE i \in DOMAIN _providers :
                        _providers[i].provider_id = provider_id]
    ELSE None

_resolve_provider(cfg, provider_id_arg) ==
    LET provider_id == strip(provider_id_arg)
    IN  IF provider_id # <<>> THEN ProviderGet(provider_id)
        ELSE IF cfg.default_provider_id # <<>>
                /\ ProviderGet(cfg.default_provider_id) # None
        THEN ProviderGet(cfg.default_provider_id)
        ELSE IF _providers # <<>> THEN _providers[1]
        ELSE None

_TASK_CACHE_MAX == 200

max_transient_errors == 3

KEY_VIDEO_TASK == <<"v","i","d","e","o","_","t","a","s","k",":">>
KEY_VIDEO_LAST_TASK == <<"v","i","d","e","o","_","l","a","s","t","_","t","a","s","k",":">>

\* event.unified_msg_origin of the one chat session
S_session == <<"s","1">>

_session_last_task_key == KEY_VIDEO_LAST_TASK \o S_session

\* OrderedDict.__setitem__: a present key keeps its place, a new one goes last
CachePut(cache, key, value) ==
    IF \E i \in DOMAIN cache : cache[i].key = key
    THEN [i \in DOMAIN cache |->
             IF cache[i].key = key THEN [key |-> key, value |-> value] ELSE cache[i]]
    ELSE Append(cache, [key |-> key, value |-> value])

\* while len(cache) > _TASK_CACHE_MAX: cache.popitem(last=False)
RECURSIVE CacheTrim(_)
CacheTrim(cache) ==
    IF Len(cache) > _TASK_CACHE_MAX THEN CacheTrim(Tail(cache)) ELSE cache

\* _safe_put_kv: the store takes the value, or it is missing or raises and the
\* failure is swallowed
_safe_put_kv(kv, key, value, put_ok) ==
    IF put_ok THEN [k \in DOMAIN kv \cup {key} |-> IF k = key THEN value ELSE kv[k]]
    ELSE kv

TaskRecord(snapshot, prompt_arg, model, now) ==
    [provider_id |-> snapshot.provider_id,
     task_id |-> snapshot.task_id,
     status |-> snapshot.status,
     video_url |-> snapshot.video_url,
     error_message |-> snapshot.error_message,
     raw |-> snapshot.raw,
     prompt |-> prompt_arg,
     model |-> model,
     updated_at |-> now]

\* _save_task: the cache and the store after the call
_save_task(cache, kv, snapshot, prompt_arg, model, now, put_ok1, put_ok2) ==
    IF snapshot.task_id = <<>> THEN [cache |-> cache, kv |-> kv]
    ELSE LET record == TaskRecord(snapshot, prompt_arg, model, now)
             kv1 == _safe_put_kv(kv, KEY_VIDEO_TASK \o snapshot.task_id, record, put_ok1)
         IN  [cache |-> CacheTrim(CachePut(cache, snapshot.task_id, record)),
              kv |-> _safe_put_kv(kv1, _session_last_task_key, snapshot.task_id, put_ok2)]

-----------------------------------------------------------------------------
(* main.py: the video_gen handler (submit, wait, save, report) *)

Init ==
    /\ config \in Configs
    /\ pc = "idle"
    /\ prompt = EmptyStr
    /\ provider = None
    /\ attempts = 0
    /\ submit_snapshot = None
    /\ latest = None
    /\ consecutive_errors = 0
    /\ attempt = 0
    /\ final_snapshot = None
    /\ exit_line = "none"
    /\ reply = "none"
    /\ task_cache = <<>>
    /\ kv_store = <<>>
    /\ queries = <<>>
    /\ sleeps = 0
    /\ submits = <<>>
    /\ arg = None
    /\ out = None

\* video_gen up to the submit request: resolve the provider
VideoGen ==
    /\ pc = "idle"
    /\ \E provider_id \in ProviderIdInputs, text \in {S_cat} :
          LET p == _resolve_provider(config, provider_id)
          IN  /\ prompt' = text
              /\ provider' = p
              /\ IF p = None
                 THEN pc' = "done" /\ reply' = "no_provider"
                 ELSE pc' = "submit" /\ reply' = reply
    /\ UNCHANGED <<config, attempts, submit_snapshot, latest, consecutive_errors,
                   attempt, final_snapshot, exit_line, task_cache, kv_store,
                   queries, sleeps, submits, arg, out>>

\* the submit request returns: on VideoApiError report and stop, else save
\* the snapshot and go on to _wait_for_result
SubmitReturns ==
    /\ pc = "submit"
    /\ \E resp \in SubmitResponses, now \in Times, put_ok1 \in BOOLEAN, put_ok2 \in BOOLEAN :
          LET r == submit(provider, resp)
              saved == _save_task(task_cache, kv_store, r.value, prompt,
                                  provider.model, now, put_ok1, put_ok2)
          IN  /\ submits' = Append(submits, resp)
              /\ IF r.ok
                 THEN /\ submit_snapshot' = r.value
                      /\ task_cache' = saved.cache
                      /\ kv_store' = saved.kv
                      /\ pc' = "wait"
                      /\ reply' = "submitted"
                 ELSE /\ pc' = "done"
                      /\ reply' = "submit_failed"
                      /\ UNCHANGED <<submit_snapshot, task_cache, kv_store>>
    /\ UNCHANGED <<config, prompt, provider, attempts, latest, consecutive_errors,
                   attempt, final_snapshot, exit_line, queries, sleeps, arg, out>>

\* _wait_for_result up to the loop: the two early returns and the loop's set-up
WaitForResult ==
    /\ pc = "wait"
    /\ IF _is_terminal(provider, submit_snapshot)
       THEN /\ final_snapshot' = submit_snapshot
            /\ exit_line' = "already_terminal"
            /\ pc' = "finish"
            /\ UNCHANGED <<attempts, latest, consecutive_errors, attempt>>
       ELSE IF submit_snapshot.task_id = <<>>
       THEN /\ final_snapshot' = submit_snapshot
            /\ exit_line' = "no_task_id"
            /\ pc' = "finish"
            /\ UNCHANGED <<attempts, latest, consecutive_errors, attempt>>
       ELSE /\ attempts' = Max(config.max_poll_attempts, 1)
            /\ latest' = submit_snapshot
            /\ consecutive_errors' = 0
            /\ attempt' = 0
            /\ pc' = "sleep"
            /\ UNCHANGED <<final_snapshot, exit_line>>
    /\ UNCHANGED <<config, prompt, provider, submit_snapshot, reply, task_cache,
                   kv_store, queries, sleeps, submits, arg, out>>

\* await asyncio.sleep(interval)
Sleep ==
    /\ pc = "sleep"
    /\ sleeps' = sleeps + 1
    /\ pc' = "query"
    /\ UNCHANGED <<config, prompt, provider, attempts, submit_snapshot, latest,
                   consecutive_errors, attempt, final_snapshot, exit_line, reply,
                   task_cache, kv_store, queries, submits, arg, out>>

\* the status is "error" whatever the last status was
SynthesizedAlwaysError(last, exc) ==
    TaskSnapshot(last.provider_id, last.task_id, S_error, last.video_url, exc, last.raw)

\* the snapshot _wait_for_result makes up when it gives up on errors
SynthesizedSnapshot(last, exc) ==
    TaskSnapshot(last.provider_id, last.task_id,
                 IF last.status # <<>> THEN last.status ELSE S_error,
                 last.video_url, exc, last.raw)

\* the counter is left as it is
ErrorsNotReset(errors) == errors

\* consecutive_errors after a query that succeeded
ErrorsAfterSuccess(errors) == 0

\* when the budget runs out the snapshot held before this query is returned
NextIterationStale(last) ==
    IF attempt + 1 < attempts
    THEN /\ attempt' = attempt + 1
         /\ pc' = "sleep"
         /\ UNCHANGED <<final_snapshot, exit_line>>
    ELSE /\ final_snapshot' = latest
         /\ exit_line' = "exhausted"
         /\ pc' = "finish"
         /\ UNCHANGED attempt

\* the loop runs one iteration more than the budget
NextIterationOneMore(last) ==
    IF attempt + 1 <= attempts
    THEN /\ attempt' = attempt + 1
         /\ pc' = "sleep"
         /\ UNCHANGED <<final_snapshot, exit_line>>
    ELSE /\ final_snapshot' = last
         /\ exit_line' = "exhausted"
         /\ pc' = "finish"
         /\ UNCHANGED attempt

\* the for loop goes to its next iteration, or runs out and returns latest
NextIteration(last) ==
    IF attempt + 1 < attempts
    THEN /\ attempt' = attempt + 1
         /\ pc' = "sleep"
         /\ UNCHANGED <<final_snapshot, exit_line>>
    ELSE /\ final_snapshot' = last
         /\ exit_line' = "exhausted"
         /\ pc' = "finish"
         /\ UNCHANGED attempt

\* one query of the loop returns, and the rest of the iteration
QueryReturns ==
    /\ pc = "query"
    /\ \E resp \in QueryResponses :
          LET r == query(provider, submit_snapshot.task_id, resp)
          IN  /\ queries' = Append(queries, r)
              /\ IF r.ok
                 THEN /\ latest' = r.value
                      /\ consecutive_errors' = ErrorsAfterSuccess(consecutive_errors)
                      /\ IF _is_terminal(provider, r.value)
                         THEN /\ final_snapshot' = r.value
                              /\ exit_line' = "terminal"
                              /\ pc' = "finish"
                              /\ UNCHANGED attempt
                         ELSE NextIteration(r.value)
                 ELSE /\ consecutive_errors' = consecutive_errors + 1
                      /\ latest' = latest
                      /\ IF consecutive_errors + 1 >= max_transient_errors
                         THEN /\ final_snapshot' = SynthesizedSnapshot(latest, r.error)
                              /\ exit_line' = "transient_errors"
                              /\ pc' = "finish"
                              /\ UNCHANGED attempt
                         ELSE NextIteration(latest)
    /\ UNCHANGED <<config, prompt, provider, attempts, submit_snapshot, reply,
                   task_cache, kv_store, sleeps, submits, arg, out>>

\* what video_gen tells the user about the final snapshot
Report(prov, snapshot, chain_ok) ==
    IF _is_failed(prov, snapshot) THEN "failed"
    ELSE IF snapshot.video_url # <<>>
    THEN (IF chain_ok THEN "completed_video" ELSE "completed_text")
    ELSE "processing"

\* video_gen after _wait_for_result: save the final snapshot and report
Finish ==
    /\ pc = "finish"
    /\ \E now \in Times, put_ok1 \in BOOLEAN, put_ok2 \in BOOLEAN, chain_ok \in BOOLEAN :
          LET saved == _save_task(task_cache, kv_store, final_snapshot, prompt,
                                  provider.model, now, put_ok1, put_ok2)
          IN  /\ task_cache' = saved.cache
              /\ kv_store' = saved.kv
              /\ reply' = Report(provider, final_snapshot, chain_ok)
    /\ pc' = "done"
    /\ UNCHANGED <<config, prompt, provider, attempts, submit_snapshot, latest,
                   consecutive_errors, attempt, final_snapshot, exit_line,
                   queries, sleeps, submits, arg, out>>

Next ==
    \/ VideoGen
    \/ SubmitReturns
    \/ WaitForResult
    \/ Sleep
    \/ QueryReturns
    \/ Finish

Spec == Init /\ [][Next]_vars

-----------------------------------------------------------------------------
(* _is_terminal, _is_failed and the report, applied to bounded inputs *)

UpperOf == [c \in {LowerCase[i] : i \in DOMAIN LowerCase} |->
               UpperCase[CHOOSE i \in DOMAIN LowerCase : LowerCase[i] = c]]

Capitals(s) == [i \in DOMAIN s |-> IF s[i] \in DOMAIN UpperOf THEN UpperOf[s[i]] ELSE s[i]]

\* a vocabulary word as servers may send it: as it is, in capitals, padded
StatusVariants(v) ==
    {v, Capitals(v), <<" ">> \o v, v \o <<"\n">>,
     <<"\t">> \o Capitals(v) \o <<" ", "\r">>}

VocabularyWords ==
    UNION {{_providers[p].done_values[k] : k \in DOMAIN _providers[p].done_values}
           \cup {_providers[p].failed_values[k] : k \in DOMAIN _providers[p].failed_values} :
           p \in DOMAIN _providers}

StatusInputs ==
    UNION {StatusVariants(v) : v \in VocabularyWords}
    \cup {EmptyStr, <<" ">>, S_unknown, S_queued, S_processing,
          S_succeeded \o <<"x">>, S_done \o <<" ">> \o S_done,
          <<"f","a","i","l">>}

ClassifyInputs ==
    [provider : {_providers[p] : p \in DOMAIN _providers},
     snapshot : {TaskSnapshot(S_p1, S_t1, status, video_url, error_message, JObj(<<>>)) :
                    status \in StatusInputs,
                    video_url \in {EmptyStr, S_video_url},
                    error_message \in {EmptyStr, S_boom}}]

ClassifyInit ==
    /\ config = [max_poll_attempts |-> 1, default_provider_id |-> EmptyStr]
    /\ pc = "idle"
    /\ prompt = EmptyStr
    /\ provider = None
    /\ attempts = 0
    /\ submit_snapshot = None
    /\ latest = None
    /\ consecutive_errors = 0
    /\ attempt = 0
    /\ final_snapshot = None
    /\ exit_line = "none"
    /\ reply = "none"
    /\ task_cache = <<>>
    /\ kv_store = <<>>
    /\ queries = <<>>
    /\ sleeps = 0
    /\ submits = <<>>
    /\ arg \in ClassifyInputs
    /\ out = None

Classify ==
    /\ out = None
    /\ out' = [is_terminal |-> _is_terminal(arg.provider, arg.snapshot),
               is_failed |-> _is_failed(arg.provider, arg.snapshot),
               report |-> Report(arg.provider, arg.snapshot, TRUE)]
    /\ UNCHANGED <<config, pc, prompt, provider, attempts, submit_snapshot, latest,
                   consecutive_errors, attempt, final_snapshot, exit_line, reply,
                   task_cache, kv_store, queries, sleeps, submits, arg>>

ClassifySpec == ClassifyInit /\ [][Classify]_vars

-----------------------------------------------------------------------------
(* The vocabulary of the properties, stated without the code's operators *)

\* s from its first to its last character that is not whitespace
Trimmed(s) ==
    LET inked == {k \in DOMAIN s : s[k] \notin Whitespace}
    IN  IF inked = {} THEN <<>>
        ELSE SubSeq(s, CHOOSE i \in inked : \A k \in inked : i <= k,
                       CHOOSE j \in inked : \A k \in inked : k <= j)

SameLetter(a, b) ==
    \/ a = b
    \/ \E i \in DOMAIN UpperCase :
          {a, b} = {UpperCase[i], LowerCase[i]}

EqualIgnoringCase(a, b) ==
    Len(a) = Len(b) /\ \A i \in DOMAIN a : SameLetter(a[i], b[i])

\* the status, trimmed and ignoring case, is a member of the vocabulary
InVocabulary(status, values) ==
    LET core == Trimmed(status)
    IN  \E k \in DOMAIN values : EqualIgnoringCase(core, values[k])

TerminalStatus(prov, status) ==
    InVocabulary(status, prov.done_values) \/ InVocabulary(status, prov.failed_values)

\* terminal: a non-empty video_url, or a status of either vocabulary
IsTerminalSnapshot(prov, snapshot) ==
    snapshot.video_url # <<>> \/ TerminalStatus(prov, snapshot.status)

\* the attempt budget of a polling run
Budget == IF config.max_poll_attempts >= 1 THEN config.max_poll_attempts ELSE 1

\* _wait_for_result has returned
Returned == pc \in {"finish", "done"} /\ final_snapshot # None

\* _wait_for_result has entered its loop
Polling == pc \in {"sleep", "query"} \/ (Returned /\ queries # <<>>)

QueryFailed(i) == ~queries[i].ok

\* queries i, i+1 and i+2 all failed
ThreeFailuresFrom(i) ==
    /\ i >= 1
    /\ i + 2 <= Len(queries)
    /\ QueryFailed(i) /\ QueryFailed(i + 1) /\ QueryFailed(i + 2)

\* the number of failed queries since the last successful one
TrailingFailures ==
    LET ok == {i \in DOMAIN queries : queries[i].ok}
    IN  IF ok = {} THEN Len(queries)
        ELSE Len(queries) - (CHOOSE i \in ok : \A j \in ok : j <= i)

\* the last successfully obtained snapshot: the submit snapshot if no query succeeded
LastObtained ==
    LET ok == {i \in DOMAIN queries : queries[i].ok}
    IN  IF ok = {} THEN submit_snapshot
        ELSE queries[CHOOSE i \in ok : \A j \in ok : j <= i].value

\* some query returned a terminal snapshot
SomeTerminalQuery ==
    \E i \in DOMAIN queries :
        queries[i].ok /\ IsTerminalSnapshot(provider, queries[i].value)

-----------------------------------------------------------------------------
(* The polling loop *)

\* C1: a polling run aborts on errors exactly when three queries in a row
\* fail; a successful query resets the counter; no query follows the third
\* consecutive failure; the snapshot returned then is the last obtained one
\* with status "error" if it had none and the third failure's text.
C1_AbortOnThreeConsecutiveFailures ==
    /\ consecutive_errors = TrailingFailures
    /\ (exit_line = "transient_errors") <=> ThreeFailuresFrom(Len(queries) - 2)
    /\ \A i \in DOMAIN queries : ThreeFailuresFrom(i) => i + 2 = Len(queries)
    /\ exit_line = "transient_errors" =>
          /\ Returned
          /\ final_snapshot =
                [provider_id |-> LastObtained.provider_id,
                 task_id |-> LastObtained.task_id,
                 video_url |-> LastObtained.video_url,
                 raw |-> LastObtained.raw,
                 status |-> IF LastObtained.status # <<>>
                            THEN LastObtained.status ELSE S_error,
                 error_message |-> queries[Len(queries)].error]

\* a run that succeeded once, then failed three times with different texts
C1_Witness ==
    /\ pc = "done"
    /\ exit_line = "transient_errors"
    /\ Len(queries) = 4
    /\ queries[1].ok
    /\ QueryFailed(2) /\ QueryFailed(3) /\ QueryFailed(4)
    /\ queries[2].error # queries[4].error
    /\ final_snapshot.error_message = queries[4].error

\* the first three queries of the run all failed
FirstThreeFailed == ThreeFailuresFrom(1)

EndedByTerminal ==
    /\ queries # <<>>
    /\ queries[Len(queries)].ok
    /\ IsTerminalSnapshot(provider, queries[Len(queries)].value)

\* the last three queries failed
EndedByErrors == ThreeFailuresFrom(Len(queries) - 2)

\* every attempt was used, and neither other reason applies
EndedByBudget == Len(queries) = Budget /\ ~EndedByTerminal /\ ~EndedByErrors

\* a polling loop is running or has returned, and what it may have done
PollingBounded ==
    Polling =>
        /\ Len(queries) <= Budget
        /\ sleeps <= Budget
        /\ pc \in {"sleep", "query"} =>
              ~EndedByTerminal /\ ~EndedByErrors /\ Len(queries) < Budget
        /\ Returned =>
              /\ exit_line \in {"terminal", "exhausted", "transient_errors"}
              /\ (exit_line = "terminal") <=> EndedByTerminal
              /\ (exit_line = "transient_errors") <=> EndedByErrors
              /\ (exit_line = "exhausted") <=> EndedByBudget
              /\ Cardinality({r \in {"terminal", "exhausted", "transient_errors"} :
                     \/ r = "terminal" /\ EndedByTerminal
                     \/ r = "transient_errors" /\ EndedByErrors
                     \/ r = "exhausted" /\ EndedByBudget}) = 1

\* an upper bound on the steps the handler still takes, from the history alone
StepsLeft ==
    CASE pc = "idle" -> 2 * Budget + 4
      [] pc = "submit" -> 2 * Budget + 3
      [] pc = "wait" -> 2 * Budget + 2
      [] pc = "sleep" -> 2 * (Budget - Len(queries)) + 1
      [] pc = "query" -> 2 * (Budget - Len(queries))
      [] pc = "finish" -> 1
      [] pc = "done" -> 0

\* C3: every polling run terminates: it issues at most max(max_poll_attempts, 1)
\* queries and then returns, for exactly one of three reasons: a query gave a
\* terminal snapshot, the budget was used up, three queries in a row failed.
\* Termination is stated on finite runs: every step lowers StepsLeft, which is
\* never negative, and a handler that has not ended can take a step.
C3_PollingTerminates ==
    /\ []PollingBounded
    /\ [](StepsLeft >= 0 /\ (pc # "done" => ENABLED Next))
    /\ [][StepsLeft' < StepsLeft]_vars

\* a run that used its whole budget of MaxPollAttempts queries and returned
C3_Witness ==
    /\ pc = "done"
    /\ Polling
    /\ config.max_poll_attempts = MaxPollAttempts
    /\ Len(queries) = MaxPollAttempts
    /\ exit_line = "exhausted"

\* the scenario of C4: submit answers {id t1, status queued}, the first query
\* {status processing}, the second {status succeeded, output[0].url}
C4_Scenario ==
    /\ submit_snapshot # None
    /\ submit_snapshot.raw = PayloadQueued
    /\ provider = _providers[1]
    /\ Len(queries) >= 2
    /\ queries[1].ok /\ queries[1].value.raw = PayloadProcessing
    /\ queries[2].ok /\ queries[2].value.raw = PayloadSucceeded

\* C4: as soon as a query returns a terminal snapshot the loop exits: that
\* snapshot is returned and no further query is issued; in the scenario
\* queued, processing, succeeded with a URL, polling issues exactly two queries
\* and returns a terminal-success snapshot with that URL.
C4_ExitOnTerminalSnapshot ==
    /\ \A i \in DOMAIN queries :
          (queries[i].ok /\ IsTerminalSnapshot(provider, queries[i].value)) =>
              /\ i = Len(queries)
              /\ Returned
              /\ final_snapshot = queries[i].value
    /\ C4_Scenario =>
          /\ submit_snapshot.task_id = S_t1
          /\ submit_snapshot.status = S_queued
          /\ Len(queries) = 2
          /\ sleeps = 2
          /\ Returned
          /\ final_snapshot.video_url = S_video_url
          /\ final_snapshot.status = S_succeeded
          /\ IsTerminalSnapshot(provider, final_snapshot)
          /\ pc = "done" => reply \in {"completed_video", "completed_text"}

C4_Witness == C4_Scenario /\ pc = "done" /\ exit_line = "terminal"

\* C5: if the submit snapshot is already terminal, polling issues no query,
\* does not sleep, and returns the submit snapshot unchanged.
C5_NoPollingWhenSubmitTerminal ==
    (submit_snapshot # None /\ IsTerminalSnapshot(provider, submit_snapshot)) =>
        /\ queries = <<>>
        /\ sleeps = 0
        /\ pc \notin {"sleep", "query"}
        /\ pc \in {"finish", "done"} => final_snapshot = submit_snapshot

\* a submit response whose status alone, padded and in capitals, is terminal
C5_Witness ==
    /\ pc = "done"
    /\ submit_snapshot # None
    /\ submit_snapshot.raw = PayloadReady
    /\ provider = _providers[2]
    /\ final_snapshot = submit_snapshot
    /\ exit_line = "already_terminal"

\* three queries in a row failed somewhere in the run
SomeThreeFailures == \E i \in DOMAIN queries : ThreeFailuresFrom(i)

\* C6: when the budget is used up with no terminal snapshot and no three
\* consecutive failures, polling returns the last successfully obtained
\* snapshot unmodified (the submit snapshot if no query succeeded); it is not
\* terminal, is not reported as failed and carries no made-up error text, also
\* when the last one or two queries failed.
C6_BudgetExhaustedReturnsLatest ==
    (Returned /\ Polling /\ Len(queries) = Budget
       /\ ~SomeTerminalQuery /\ ~SomeThreeFailures) =>
        /\ final_snapshot = LastObtained
        /\ ~IsTerminalSnapshot(provider, final_snapshot)
        /\ ~_is_failed(provider, final_snapshot)
        /\ \A i \in DOMAIN queries :
              QueryFailed(i) => final_snapshot.error_message # queries[i].error
        /\ pc = "done" => reply = "processing"

\* the budget ran out on two failures after a successful query
C6_Witness ==
    /\ pc = "done"
    /\ exit_line = "exhausted"
    /\ Len(queries) = MaxPollAttempts
    /\ queries[Len(queries) - 2].ok
    /\ QueryFailed(Len(queries) - 1)
    /\ QueryFailed(Len(queries))
    /\ final_snapshot = queries[Len(queries) - 2].value

-----------------------------------------------------------------------------
(* Submit *)

\* the decoded body of a submit response yields neither a task id nor a URL
YieldsNeither(prov, resp) ==
    LET data == _request_json(resp, prov.error_field)
    IN  /\ data.ok
        /\ _as_text(extract_json_path(data.value, prov.task_id_field), EmptyStr) = <<>>
        /\ _as_text(extract_json_path(data.value, prov.output_url_field), EmptyStr) = <<>>

\* C10: submit never returns a snapshot with both task_id and video_url empty:
\* a body that yields neither makes submit fail with VideoApiError, and that
\* failure is not retried and starts no polling.
C10_SubmitNeedsIdOrUrl ==
    /\ submit_snapshot # None =>
          ~(submit_snapshot.task_id = <<>> /\ submit_snapshot.video_url = <<>>)
    /\ Len(submits) <= 1
    /\ \A i \in DOMAIN submits :
          YieldsNeither(provider, submits[i]) =>
              /\ pc = "done"
              /\ reply = "submit_failed"
              /\ submit_snapshot = None
              /\ queries = <<>>
              /\ sleeps = 0
              /\ task_cache = <<>>

C10_Witness ==
    /\ pc = "done"
    /\ reply = "submit_failed"
    /\ submits = <<JsonResponse(200, PayloadStatusOnly)>>

-----------------------------------------------------------------------------
(* Terminal detection and failure classification *)

\* C7: a snapshot with a non-empty video_url is always treated as
\* terminal-success whatever its status and error_message: the terminal check
\* is true, the failure classification is false, and the submit-and-wait flow
\* reports completion with the URL rather than failure.
C7_UrlMeansSuccess ==
    (pc = "done" /\ final_snapshot # None /\ final_snapshot.video_url # <<>>) =>
        /\ _is_terminal(provider, final_snapshot)
        /\ ~_is_failed(provider, final_snapshot)
        /\ reply \in {"completed_video", "completed_text"}

\* C8: a snapshot is reported failed if and only if its trimmed, lower-cased
\* status is in failed_values, or its status is in done_values or failed_values
\* and error_message is non-empty and video_url is empty.
C8_FailedClassification ==
    out # None =>
        (out.is_failed <=>
            \/ InVocabulary(arg.snapshot.status, arg.provider.failed_values)
            \/ /\ TerminalStatus(arg.provider, arg.snapshot.status)
               /\ arg.snapshot.error_message # <<>>
               /\ arg.snapshot.video_url = <<>>)

\* status "processing" with an error message is not reported failed
C8_Witness ==
    /\ out # None
    /\ arg.snapshot.status = S_processing
    /\ arg.snapshot.error_message # <<>>
    /\ arg.snapshot.video_url = <<>>
    /\ ~out.is_failed

\* C9: _is_terminal is true for every status that, trimmed and ignoring case,
\* is a member of done_values or failed_values, and false for every status in
\* neither vocabulary with an empty video_url.
C9_TerminalDetection ==
    out # None =>
        /\ TerminalStatus(arg.provider, arg.snapshot.status) => out.is_terminal
        /\ (~TerminalStatus(arg.provider, arg.snapshot.status)
               /\ arg.snapshot.video_url = <<>>) => ~out.is_terminal

\* a padded status in capitals of the second provider's own vocabulary
C9_Witness ==
    /\ out # None
    /\ arg.provider = _providers[2]
    /\ arg.snapshot.status = <<"\t">> \o Capitals(S_Ready) \o <<" ", "\r">>
    /\ arg.snapshot.video_url = <<>>
    /\ out.is_terminal

-----------------------------------------------------------------------------
(* The API client *)

\* the task id a decoded body names, empty if it names none
ExtractedId(prov, payload) ==
    _as_text(extract_json_path(payload, prov.task_id_field), EmptyStr)

\* every query of the run that returned a snapshot: the snapshot's task_id is
\* the id its body names if it names one, else the id the query asked for, and
\* it is not empty; no query failed for want of a task id
QueriesKeepTaskId ==
    \A i \in DOMAIN queries :
        IF queries[i].ok
        THEN LET snapshot == queries[i].value
                 named == ExtractedId(provider, snapshot.raw)
             IN  /\ snapshot.task_id # <<>>
                 /\ snapshot.task_id =
                       (IF named # <<>> THEN named ELSE submit_snapshot.task_id)
        ELSE queries[i].error # MSG_NO_TASK_ID \o provider.provider_id

\* C11 as stated: every query with a task id that gets a non-error response
\* with a body returns a snapshot with a non-empty task_id (the body's, else the
\* one supplied), and every snapshot a polling run returns has a non-empty
\* task_id.
C11_PollingSnapshotHasTaskId ==
    /\ QueriesKeepTaskId
    /\ Returned => final_snapshot.task_id # <<>>

\* C11, amended: the same of every query; a polling run returns a snapshot
\* with a non-empty task_id whenever the submit snapshot has one, and returns
\* the submit snapshot as it is, with an empty task_id, when the submit response
\* carried a video_url and no id.
C11_QuerySnapshotHasTaskId ==
    /\ QueriesKeepTaskId
    /\ Returned =>
          IF submit_snapshot.task_id # <<>>
          THEN final_snapshot.task_id # <<>>
          ELSE /\ final_snapshot = submit_snapshot
               /\ final_snapshot.video_url # <<>>
               /\ queries = <<>>

\* a query whose body names no task and one whose body names another task
C11_Witness ==
    /\ pc = "done"
    /\ Len(queries) = 2
    /\ queries[1].ok /\ queries[1].value.raw = PayloadFailed
    /\ queries[1].value.task_id = S_t1
    /\ queries[2].ok /\ queries[2].value.raw = PayloadFailedWithUrl
    /\ final_snapshot.task_id = S_t2

-----------------------------------------------------------------------------
(* main.py: loading tasks, and the video_status handler *)

\* the variables of the video_gen handler
flow_vars == <<config, pc, prompt, provider, attempts, submit_snapshot, latest,
               consecutive_errors, attempt, final_snapshot, exit_line, reply,
               queries, sleeps, submits>>

\* no video_gen handler is running
FlowIdle ==
    /\ pc = "idle"
    /\ prompt = EmptyStr
    /\ provider = None
    /\ attempts = 0
    /\ submit_snapshot = None
    /\ latest = None
    /\ consecutive_errors = 0
    /\ attempt = 0
    /\ final_snapshot = None
    /\ exit_line = "none"
    /\ reply = "none"
    /\ queries = <<>>
    /\ sleeps = 0
    /\ submits = <<>>

\* _safe_get_kv: the stored value; None when the key is absent, and when the
\* store is missing or raises
_safe_get_kv(kv, key, get_ok) ==
    IF get_ok /\ key \in DOMAIN kv
    THEN [is_none |-> FALSE, value |-> kv[key]]
    ELSE [is_none |-> TRUE]

\* data.get(key, "")
DictGet(data, key) == IF key \in DOMAIN data THEN data[key] ELSE EmptyStr

\* the raw payload is not taken over from the record
FromDictWithoutRaw(data) ==
    TaskSnapshot(DictGet(data, "provider_id"),
                 DictGet(data, "task_id"),
                 DictGet(data, "status"),
                 DictGet(data, "video_url"),
                 DictGet(data, "error_message"),
                 JObj(<<>>))

\* TaskSnapshot.from_dict
from_dict(data) ==
    TaskSnapshot(DictGet(data, "provider_id"),
                 DictGet(data, "task_id"),
                 DictGet(data, "status"),
                 DictGet(data, "video_url"),
                 DictGet(data, "error_message"),
                 IF "raw" \in DOMAIN data /\ IsMapping(data["raw"])
                 THEN data["raw"] ELSE JObj(<<>>))

\* self._task_cache.get(task_id)
CacheGet(cache, key) ==
    IF \E i \in DOMAIN cache : cache[i].key = key
    THEN cache[CHOOSE i \in DOMAIN cache : cache[i].key = key].value
    ELSE None

\* the cache is not looked at before the store is read
LoadTaskStoreFirst(cache, kv, task_id, get_ok) ==
    LET stored == _safe_get_kv(kv, KEY_VIDEO_TASK \o task_id, get_ok)
    IN  IF ~stored.is_none
        THEN [cache |-> CachePut(cache, task_id, stored.value),
              snapshot |-> from_dict(stored.value)]
        ELSE [cache |-> cache, snapshot |-> None]

\* _load_task: the snapshot (or None) and the cache after the call
_load_task(cache, kv, task_id, get_ok) ==
    LET cached == CacheGet(cache, task_id)
        stored == _safe_get_kv(kv, KEY_VIDEO_TASK \o task_id, get_ok)
    IN  IF cached # None
        THEN [cache |-> cache, snapshot |-> from_dict(cached)]
        ELSE IF ~stored.is_none
        THEN [cache |-> CachePut(cache, task_id, stored.value),
              snapshot |-> from_dict(stored.value)]
        ELSE [cache |-> cache, snapshot |-> None]

_load_last_task_id(kv, get_ok) ==
    LET got == _safe_get_kv(kv, _session_last_task_key, get_ok)
    IN  IF ~got.is_none /\ got.value # <<>> THEN got.value ELSE EmptyStr

\* video_status from its first line to its last, given what the store and the
\* server do: the reply, and the cache and the store after it
video_status(cache, kv, task_id_arg, get_ok1, get_ok2, resp, now, put_ok1, put_ok2, chain_ok) ==
    LET task_id == IF task_id_arg = <<>> THEN _load_last_task_id(kv, get_ok1)
                   ELSE task_id_arg
        loaded == _load_task(cache, kv, task_id, get_ok2)
        prov == ProviderGet(loaded.snapshot.provider_id)
        r == query(prov, loaded.snapshot.task_id, resp)
        saved == _save_task(loaded.cache, kv, r.value, EmptyStr, prov.model, now,
                            put_ok1, put_ok2)
    IN  IF task_id = <<>>
        THEN [reply |-> "no_task", cache |-> cache, kv |-> kv]
        ELSE IF loaded.snapshot = None
        THEN [reply |-> "not_found", cache |-> loaded.cache, kv |-> kv]
        ELSE IF prov = None
        THEN [reply |-> "no_provider", cache |-> loaded.cache, kv |-> kv]
        ELSE IF ~r.ok
        THEN [reply |-> "query_failed", cache |-> loaded.cache, kv |-> kv]
        ELSE [reply |-> IF r.value.video_url # <<>>
                        THEN (IF chain_ok THEN "completed_video" ELSE "completed_text")
                        ELSE "status",
              cache |-> saved.cache, kv |-> saved.kv]

-----------------------------------------------------------------------------
(* The task cache and the key-value store under saves and loads *)

\* the number of tasks a long-running process submits: one more than the cache holds
MaxTasks == 201

\* the tasks, counted from the first, during whose writes the store may raise
MaxFlakyTasks == 1

\* the number of tasks of a short run, with a store that may raise at any call
MaxStoreTasks == 1

\* the task id of the n-th task submitted; "0" is an id never given out
TaskIdOf(n) == FormatInt(n)

\* the snapshot of a task as it is first saved
SubmittedSnapshot(n) ==
    TaskSnapshot(S_p1, TaskIdOf(n), S_queued, EmptyStr, EmptyStr, JObj(<<>>))

\* what a put_kv_data call for task n may do, and what a get_kv_data call may do:
\* without a store every call is a miss; with one, a call may raise
PutOutcomes(n) ==
    IF ~arg.store THEN {FALSE}
    ELSE IF n <= arg.flaky THEN BOOLEAN
    ELSE {TRUE}

GetOutcomes == IF arg.store THEN BOOLEAN ELSE {FALSE}

\* the responses a status request gets in these runs; none names a task id
StatusResponses ==
    {HttpError(S_timeout), JsonResponse(200, PayloadFailed), JsonResponse(200, PayloadUrlOnly)}

InCache(cache, task_id) == \E i \in DOMAIN cache : cache[i].key = task_id

InStore(kv, task_id) == (KEY_VIDEO_TASK \o task_id) \in DOMAIN kv

\* a handler saves a task: the next new one, or again one of the first, or
\* again the oldest one in the cache
SaveTask ==
    /\ arg # None
    /\ \E n \in 1 .. arg.limit :
          /\ n <= arg.fresh + 1
          /\ \/ n = arg.fresh + 1
             \/ n <= arg.flaky
             \/ task_cache # <<>> /\ task_cache[1].key = TaskIdOf(n)
          /\ \E now \in Times, put_ok1 \in PutOutcomes(n), put_ok2 \in PutOutcomes(n) :
                \E saved \in {_save_task(task_cache, kv_store, SubmittedSnapshot(n),
                                       S_cat, EmptyStr, now, put_ok1, put_ok2)} :
                    /\ task_cache' = saved.cache
                    /\ kv_store' = saved.kv
                    /\ arg' = [arg EXCEPT !.fresh = Max(arg.fresh, n)]
                    /\ out' = [op |-> "save", task_id |-> TaskIdOf(n),
                               put_ok1 |-> put_ok1, put_ok2 |-> put_ok2,
                               record |-> TaskRecord(SubmittedSnapshot(n), S_cat,
                                                     EmptyStr, now)]
    /\ UNCHANGED flow_vars

\* a handler loads a task: one of the first, or one that was never saved
LoadTask ==
    /\ arg # None
    /\ \E n \in 0 .. arg.flaky, get_ok \in GetOutcomes :
          \E loaded \in {_load_task(task_cache, kv_store, TaskIdOf(n), get_ok)} :
              /\ task_cache' = loaded.cache
              /\ out' = [op |-> "load", task_id |-> TaskIdOf(n), get_ok |-> get_ok,
                         was_cached |-> InCache(task_cache, TaskIdOf(n)),
                         was_stored |-> InStore(kv_store, TaskIdOf(n)),
                         snapshot |-> loaded.snapshot]
    /\ UNCHANGED <<kv_store, arg>>
    /\ UNCHANGED flow_vars

\* a handler asks for the session's last task id
LoadLastTaskId ==
    /\ arg # None
    /\ \E get_ok \in GetOutcomes :
          out' = [op |-> "last", get_ok |-> get_ok,
                  was_stored |-> _session_last_task_key \in DOMAIN kv_store,
                  value |-> _load_last_task_id(kv_store, get_ok)]
    /\ UNCHANGED <<task_cache, kv_store, arg>>
    /\ UNCHANGED flow_vars

\* the video_status handler runs
VideoStatus ==
    /\ arg # None
    /\ \E task_id_arg \in {EmptyStr} \cup {TaskIdOf(n) : n \in 0 .. arg.limit},
          now \in Times :
       \* an outcome is drawn only for a call the handler gets to
       \E get_ok1 \in (IF task_id_arg = <<>> THEN GetOutcomes ELSE {FALSE}) :
          LET last == IF _session_last_task_key \in DOMAIN kv_store
                      THEN kv_store[_session_last_task_key] ELSE EmptyStr
              asked == IF task_id_arg # <<>> THEN task_id_arg
                       ELSE IF get_ok1 THEN last ELSE EmptyStr
              was_cached == InCache(task_cache, asked)
              was_stored == InStore(kv_store, asked)
          IN  \E get_ok2 \in (IF asked = <<>> \/ was_cached THEN {FALSE} ELSE GetOutcomes) :
              \E resp \in (IF was_cached \/ (get_ok2 /\ was_stored)
                           THEN StatusResponses ELSE {HttpError(S_timeout)}) :
              \E put_ok1 \in (IF resp.kind = "exc" THEN {FALSE} ELSE PutOutcomes(0)),
                 put_ok2 \in (IF resp.kind = "exc" THEN {FALSE} ELSE PutOutcomes(0)),
                 chain_ok \in (IF resp = JsonResponse(200, PayloadUrlOnly)
                               THEN BOOLEAN ELSE {FALSE}) :
                 \E done \in {video_status(task_cache, kv_store, task_id_arg, get_ok1,
                                         get_ok2, resp, now, put_ok1, put_ok2, chain_ok)} :
                     /\ task_cache' = done.cache
                     /\ kv_store' = done.kv
                     /\ out' = [op |-> "status", asked |-> asked, get_ok |-> get_ok2,
                                was_cached |-> was_cached, was_stored |-> was_stored,
                                resp |-> resp, reply |-> done.reply]
    /\ UNCHANGED arg
    /\ UNCHANGED flow_vars

\* the process restarts: the cache starts empty, the store keeps what it has
Restart ==
    /\ arg # None
    /\ task_cache # <<>>
    /\ task_cache' = <<>>
    /\ out' = [op |-> "restart"]
    /\ UNCHANGED <<kv_store, arg>>
    /\ UNCHANGED flow_vars

\* a long-running process: tasks are saved one after another and loaded again
CacheInit ==
    /\ FlowIdle
    /\ config = [max_poll_attempts |-> 1, default_provider_id |-> EmptyStr]
    /\ task_cache = <<>>
    /\ kv_store = <<>>
    /\ arg \in [fresh : {0}, limit : {MaxTasks}, flaky : {MaxFlakyTasks}, store : BOOLEAN]
    /\ out = None

CacheNext ==
    \/ SaveTask
    \/ LoadTask

CacheSpec == CacheInit /\ [][CacheNext]_vars

\* a short run in which every call of the store may raise
StoreInit ==
    /\ FlowIdle
    /\ config = [max_poll_attempts |-> 1, default_provider_id |-> EmptyStr]
    /\ task_cache = <<>>
    /\ kv_store = <<>>
    /\ arg \in [fresh : {0}, limit : {MaxStoreTasks}, flaky : {MaxStoreTasks},
                store : BOOLEAN]
    /\ out = None

StoreNext ==
    \/ SaveTask
    \/ LoadTask
    \/ LoadLastTaskId
    \/ VideoStatus
    \/ Restart

StoreSpec == StoreInit /\ [][StoreNext]_vars

\* C12: the task cache never holds more than 200 entries, after any sequence
\* of saves and loads, loads that fill the cache from the store included.
C12_CacheBounded == Len(task_cache) <= _TASK_CACHE_MAX

\* C13: a task that was saved and is no longer in the cache has a record in the
\* store, also when a write to the store failed or there is no store.
C13_EvictedIsStored ==
    arg # None =>
        \A n \in 1 .. arg.fresh :
            InCache(task_cache, TaskIdOf(n)) \/ InStore(kv_store, TaskIdOf(n))

\* the task was found: in the cache, or by a read of the store that worked
Found == out.was_cached \/ (out.get_ok /\ out.was_stored)

\* what video_status answers for a task it found, by the server's response
StatusReplies(resp) ==
    IF resp.kind = "exc" THEN {"query_failed"}
    ELSE IF resp.json = PayloadUrlOnly THEN {"completed_video", "completed_text"}
    ELSE {"status"}

-----------------------------------------------------------------------------
(* Shutdown: terminate while a video_gen run is in flight *)

\* self._client.close() has run
Closed == arg # None

\* terminate: the framework unloads the plugin once; the handler that is running
\* is not told and is not waited for
Terminate ==
    /\ ~Closed
    /\ arg' = [closes |-> 1, closed_at |-> pc, requests_after_close |-> 0]
    /\ UNCHANGED <<task_cache, kv_store, out>>
    /\ UNCHANGED flow_vars

\* the handler reaches its next request after close: _request_json calls
\* self._http_client.request on the closed client, which raises an error that is
\* not an httpx.HTTPError, so neither _request_json nor _wait_for_result nor
\* video_gen catches it
RequestOnClosedTransport ==
    /\ Closed
    /\ pc \in {"submit", "query"}
    /\ arg' = [arg EXCEPT !.requests_after_close = @ + 1]
    /\ pc' = "done"
    /\ reply' = "crashed"
    /\ UNCHANGED <<config, prompt, provider, attempts, submit_snapshot, latest,
                   consecutive_errors, attempt, final_snapshot, exit_line,
                   task_cache, kv_store, queries, sleeps, submits, out>>

\* the submit request on a transport that is open
SubmitOnOpenTransport == ~Closed /\ SubmitReturns

\* a query of the polling loop on a transport that is open
QueryOnOpenTransport == ~Closed /\ QueryReturns

ShutdownInit ==
    /\ Init
    /\ config.max_poll_attempts = 2

ShutdownNext ==
    \/ VideoGen
    \/ SubmitOnOpenTransport
    \/ WaitForResult
    \/ Sleep
    \/ QueryOnOpenTransport
    \/ Finish
    \/ Terminate
    \/ RequestOnClosedTransport

ShutdownSpec == ShutdownInit /\ [][ShutdownNext]_vars

\* C15: the transport is closed once, and after it has been closed no submit or
\* query request is issued on it, however terminate interleaves with a run that
\* was sleeping between two polls.
C15_NoRequestAfterClose ==
    Closed => (arg.closes = 1 /\ arg.requests_after_close = 0)

-----------------------------------------------------------------------------
(* The API client on one response: status codes and bodies *)

S_Bad_Gateway == <<"B","a","d"," ","G","a","t","e","w","a","y">>

StatusCodes == {200, 202, 400, 404, 500, 502}

\* bodies that are not JSON: empty, blank, plain text, plain text with blanks around
TextBodies == {EmptyStr, <<" ">>, S_Bad_Gateway, <<" ">> \o S_OK \o <<" ">>}

\* bodies that are JSON: with and without the error field, falsy values, a task
JsonBodies ==
    {PayloadError, PayloadQueued, PayloadUrlOnly, JObj(<<>>), JArr(<<>>), JNull,
     JObj(S_error :> JObj(S_message :> JStr(EmptyStr)))}

ApiResponses ==
    {HttpError(S_timeout)}
        \cup {TextResponse(code, body) : code \in StatusCodes, body \in TextBodies}
        \cup {JsonResponse(code, value) : code \in StatusCodes, value \in JsonBodies}

ApiInit ==
    /\ FlowIdle
    /\ config = [max_poll_attempts |-> 1, default_provider_id |-> EmptyStr]
    /\ task_cache = <<>>
    /\ kv_store = <<>>
    /\ arg \in [op : {"submit", "query"}, prov : {ProviderConfig(S_p1, S_base1)},
                task_id : {S_t1}, resp : ApiResponses]
    /\ out = None

\* one call of VideoApiClient.submit or VideoApiClient.query
ApiCall ==
    /\ out = None
    /\ out' = IF arg.op = "submit" THEN submit(arg.prov, arg.resp)
              ELSE query(arg.prov, arg.task_id, arg.resp)
    /\ UNCHANGED <<task_cache, kv_store, arg>>
    /\ UNCHANGED flow_vars

ApiSpec == ApiInit /\ [][ApiCall]_vars

\* the call was made on a response that has a status code
Answered == out # None /\ arg.resp.kind = "http"

\* the value the error field has in the body, as text; nothing for a body that
\* is not JSON
ErrorFieldOf(resp, prov) ==
    IF resp.is_json
    THEN _as_text(extract_json_path(resp.json, prov.error_field), EmptyStr)
    ELSE EmptyStr

\* C16: a response with a status of 400 or more makes submit and query fail
\* with VideoApiError; the detail is the value of error_field in the body, and
\* the raw response text whenever the body has no such value.
C16_DetailFallsBackToRawText ==
    (Answered /\ arg.resp.status_code >= 400) =>
        LET extracted == ErrorFieldOf(arg.resp, arg.prov)
            raw == strip(arg.resp.text)
            detail == IF extracted # <<>> THEN extracted
                      ELSE IF raw # <<>> THEN raw ELSE MSG_NO_DETAIL
        IN  out = VideoApiError(MSG_HTTP_ERROR \o FormatInt(arg.resp.status_code)
                                \o MSG_DETAIL \o detail)

\* C17: with a status below 400, an empty or blank body is an error; a body that
\* is not JSON is decoded as {"raw_text": body}, so submit fails for want of a
\* task id or URL and query returns a snapshot with the supplied task id and
\* the status "unknown".
C17_BodyDecoding ==
    (Answered /\ arg.resp.status_code < 400) =>
        LET raw == strip(arg.resp.text)
        IN  /\ raw = <<>> =>
                  out = VideoApiError(MSG_EMPTY_BODY \o FormatInt(arg.resp.status_code))
            /\ (raw # <<>> /\ ~arg.resp.is_json) =>
                  IF arg.op = "submit"
                  THEN out = VideoApiError(MSG_NO_TASK_ID \o arg.prov.provider_id)
                  ELSE out = Return(TaskSnapshot(arg.prov.provider_id, arg.task_id,
                                                 S_unknown, EmptyStr, EmptyStr,
                                                 JObj(S_raw_text :> JStr(raw))))

\* a query answered 200 with plain text between blanks
C17_Witness ==
    /\ Answered
    /\ arg.op = "query"
    /\ arg.resp = TextResponse(200, <<" ">> \o S_OK \o <<" ">>)
    /\ out.ok
    /\ out.value.raw = JObj(S_raw_text :> JStr(S_OK))

-----------------------------------------------------------------------------
(* Failures of the submit request and of the queries of a run *)

\* the three kinds of failure: the transport raised, a status of 400 or more,
\* an empty body
FailureKind(resp) ==
    \/ resp.kind = "exc"
    \/ resp.kind = "http" /\ (resp.status_code >= 400 \/ strip(resp.text) = <<>>)

\* each kind of failure makes submit and query raise VideoApiError
FailuresRaise ==
    \A i \in DOMAIN _providers :
        \A resp \in {HttpError(S_timeout), JsonResponse(500, PayloadError),
                     JsonResponse(404, PayloadQueued), TextResponse(200, EmptyStr),
                     TextResponse(200, <<" ">>)} :
            /\ FailureKind(resp)
            /\ ~submit(_providers[i], resp).ok
            /\ ~query(_providers[i], S_t1, resp).ok

\* C18: a run issues one submit request and never a second; a submit that fails
\* (transport failure, status of 400 or more, empty body) is reported at once
\* and is followed by no sleep, no query and no write to the cache or the
\* store; a query that fails is counted as a transient error and the run goes
\* on.
C18_SubmitFailsAtOnce ==
    /\ FailuresRaise
    /\ Len(submits) <= 1
    /\ (pc \notin {"idle", "submit"} /\ reply # "no_provider") => Len(submits) = 1
    /\ (submits # <<>> /\ FailureKind(submits[1])) =>
          /\ pc = "done"
          /\ reply = "submit_failed"
          /\ sleeps = 0
          /\ queries = <<>>
          /\ task_cache = <<>>
          /\ kv_store = <<>>
    /\ queries # <<>> =>
          /\ reply # "submit_failed"
          /\ consecutive_errors = TrailingFailures
          /\ (~queries[Len(queries)].ok /\ consecutive_errors < max_transient_errors) =>
                 \/ pc \in {"sleep", "query"} /\ exit_line = "none"
                 \/ exit_line = "exhausted"

\* a submit answered 200 with an empty body
C18_Witness ==
    /\ pc = "done"
    /\ reply = "submit_failed"
    /\ submits = <<TextResponse(200, EmptyStr)>>
    /\ queries = <<>>
    /\ task_cache = <<>>

-----------------------------------------------------------------------------
(* main.py: loading the providers from the configuration *)

_VALID_HTTP_METHODS == {S_GET, S_POST, <<"P","U","T">>, <<"P","A","T","C","H">>,
                        <<"D","E","L","E","T","E">>}

\* item.get(key, default)
ItemGet(item, key, default) == IF key \in DOMAIN item THEN item[key] ELSE default

\* isinstance(item, Mapping): an item of the list that is not a mapping is a
\* decoded scalar
IsItemMapping(item) == "t" \notin DOMAIN item

\* raw_text.split(",")
RECURSIVE SplitCommas(_, _)
SplitCommas(s, part) ==
    IF s = <<>> THEN <<part>>
    ELSE IF Head(s) = "," THEN <<part>> \o SplitCommas(Tail(s), <<>>)
    ELSE SplitCommas(Tail(s), Append(part, Head(s)))

_parse_csv(raw_text) ==
    LET parts == SplitCommas(raw_text, <<>>)
        kept == SelectSeq(parts, LAMBDA x : strip(x) # <<>>)
    IN  [i \in DOMAIN kept |-> strip(kept[i])]

S_done_csv == <<"s","u","c","c","e","e","d","e","d",",","c","o","m","p","l","e","t","e","d",",","s","u","c","c","e","s","s",",","d","o","n","e",",","f","i","n","i","s","h","e","d">>
S_failed_csv == <<"f","a","i","l","e","d",",","e","r","r","o","r",",","c","a","n","c","e","l","l","e","d",",","c","a","n","c","e","l","e","d",",","r","e","j","e","c","t","e","d">>

\* the ProviderConfig built from a record that passed the checks; keys the
\* records here never carry take their defaults
ConfigOf(item) ==
    LET done_values == _parse_csv(ItemGet(item, "done_values", S_done_csv))
        failed_values == _parse_csv(ItemGet(item, "failed_values", S_failed_csv))
        defaults == ProviderConfig(strip(ItemGet(item, "provider_id", EmptyStr)),
                                   strip(ItemGet(item, "base_url", EmptyStr)))
    IN  [defaults EXCEPT
            !.model = strip(ItemGet(item, "model", EmptyStr)),
            !.submit_method = Capitals(strip(ItemGet(item, "submit_method", S_POST))),
            !.status_method = Capitals(strip(ItemGet(item, "status_method", S_GET))),
            !.done_values = IF done_values # <<>> THEN done_values
                            ELSE defaults.done_values,
            !.failed_values = IF failed_values # <<>> THEN failed_values
                              ELSE defaults.failed_values]

\* result[provider_id] = config on an insertion-ordered dict
ProvidersPut(result, cfg) ==
    IF \E i \in DOMAIN result : result[i].provider_id = cfg.provider_id
    THEN [i \in DOMAIN result |->
             IF result[i].provider_id = cfg.provider_id THEN cfg ELSE result[i]]
    ELSE Append(result, cfg)

\* the checks of one loop iteration: the record is kept
Accepted(item) ==
    /\ IsItemMapping(item)
    /\ strip(ItemGet(item, "provider_id", EmptyStr)) # <<>>
    /\ strip(ItemGet(item, "base_url", EmptyStr)) # <<>>
    /\ Capitals(strip(ItemGet(item, "submit_method", S_POST))) \in _VALID_HTTP_METHODS
    /\ Capitals(strip(ItemGet(item, "status_method", S_GET))) \in _VALID_HTTP_METHODS

\* the load stops at the first record that fails a check
RECURSIVE LoadProvidersUntilInvalid(_, _)
LoadProvidersUntilInvalid(providers, result) ==
    IF providers = <<>> THEN result
    ELSE IF ~Accepted(Head(providers)) THEN result
    ELSE LoadProvidersUntilInvalid(Tail(providers),
                                   ProvidersPut(result, ConfigOf(Head(providers))))

\* _load_providers: the for loop over the list, result so far in hand
RECURSIVE _load_providers(_, _)
_load_providers(providers, result) ==
    IF providers = <<>> THEN result
    ELSE IF ~Accepted(Head(providers)) THEN _load_providers(Tail(providers), result)
    ELSE _load_providers(Tail(providers),
                         ProvidersPut(result, ConfigOf(Head(providers))))

MaxRecords == 3

\* records of the providers list: two good ones (one with blanks around its id
\* and a method in small letters), a second record for the id p1, and one for
\* each reason to drop a record
ProviderRecords ==
    {[provider_id |-> S_p1, base_url |-> S_base1],
     [provider_id |-> <<" ">> \o S_p2 \o <<" ">>, base_url |-> S_base2,
      submit_method |-> <<" ","p","u","t">>, done_values |-> <<"R","e","a","d","y",","," ">>],
     [provider_id |-> S_p1, base_url |-> S_base2, model |-> <<"m","2">>],
     [provider_id |-> <<" ">>, base_url |-> S_base1],
     [provider_id |-> <<"p","3">>],
     [provider_id |-> <<"p","4">>, base_url |-> S_base1,
      submit_method |-> <<"T","R","A","C","E">>],
     [provider_id |-> <<"p","5">>, base_url |-> S_base1, status_method |-> EmptyStr],
     JStr(S_boom)}

ProviderLists == UNION {[1 .. n -> ProviderRecords] : n \in 0 .. MaxRecords}

LoadInit ==
    /\ FlowIdle
    /\ config = [max_poll_attempts |-> 1, default_provider_id |-> EmptyStr]
    /\ task_cache = <<>>
    /\ kv_store = <<>>
    /\ arg \in ProviderLists
    /\ out = None

\* self._providers = self._load_providers()
LoadProviders ==
    /\ out = None
    /\ out' = [providers |-> _load_providers(arg, <<>>)]
    /\ UNCHANGED <<task_cache, kv_store, arg>>
    /\ UNCHANGED flow_vars

LoadSpec == LoadInit /\ [][LoadProviders]_vars

\* what the spec asks of a record: a mapping with a provider_id, a base_url and
\* methods among the five
ValidRecord(item) ==
    /\ IsItemMapping(item)
    /\ strip(ItemGet(item, "provider_id", EmptyStr)) # <<>>
    /\ strip(ItemGet(item, "base_url", EmptyStr)) # <<>>
    /\ \A key \in {"submit_method", "status_method"} :
          key \in DOMAIN item =>
              \E m \in _VALID_HTTP_METHODS : lower(strip(item[key])) = lower(m)

\* the positions of the valid records, and the id each gives
ValidAt == {i \in DOMAIN arg : ValidRecord(arg[i])}
IdAt(i) == strip(arg[i].provider_id)

\* C19 as stated: every valid record of the list is in the map, records that
\* are not valid are not, and the map iterates in the order the loaded records
\* were declared in.
C19_EveryValidRecordLoaded ==
    out # None =>
        LET loaded == out.providers
            At(i) == CHOOSE k \in DOMAIN loaded : loaded[k] = ConfigOf(arg[i])
        IN  /\ \A i \in ValidAt : \E k \in DOMAIN loaded : loaded[k] = ConfigOf(arg[i])
            /\ \A k \in DOMAIN loaded : \E i \in ValidAt : loaded[k] = ConfigOf(arg[i])
            /\ \A i, j \in ValidAt : i < j => At(i) <= At(j)

\* C19: every record is judged by itself.  The map holds one entry for each
\* provider_id (blanks around it removed) that a valid record carries, none
\* for any other id; the entry is built from the last valid record with that
\* id; the entries iterate in the order in which their ids first appear among
\* the valid records.
C19_ValidIdsLoaded ==
    out # None =>
        LET loaded == out.providers
            firsts == {i \in ValidAt : \A j \in ValidAt : j < i => IdAt(j) # IdAt(i)}
            LastOf(i) == CHOOSE j \in ValidAt :
                            /\ IdAt(j) = IdAt(i)
                            /\ \A h \in ValidAt : IdAt(h) = IdAt(i) => h <= j
        IN  /\ Len(loaded) = Cardinality(firsts)
            /\ \A i \in firsts :
                  LET k == Cardinality({j \in firsts : j <= i})
                  IN  /\ loaded[k].provider_id = IdAt(i)
                      /\ loaded[k] = ConfigOf(arg[LastOf(i)])
            /\ \A k \in DOMAIN loaded :
                  loaded[k].submit_method \in _VALID_HTTP_METHODS
                  /\ loaded[k].status_method \in _VALID_HTTP_METHODS

\* a TRACE record between two good ones, the second good one with a padded id
C19_Witness ==
    /\ out # None
    /\ Len(arg) = 3
    /\ arg[1] = [provider_id |-> <<" ">> \o S_p2 \o <<" ">>, base_url |-> S_base2,
                 submit_method |-> <<" ","p","u","t">>,
                 done_values |-> <<"R","e","a","d","y",","," ">>]
    /\ arg[2] = [provider_id |-> <<"p","4">>, base_url |-> S_base1,
                 submit_method |-> <<"T","R","A","C","E">>]
    /\ arg[3] = [provider_id |-> S_p1, base_url |-> S_base1]
    /\ Len(out.providers) = 2
    /\ out.providers[1].provider_id = S_p2
    /\ out.providers[1].submit_method = <<"P","U","T">>
    /\ out.providers[1].done_values = <<S_Ready>>
    /\ out.providers[2].provider_id = S_p1

-----------------------------------------------------------------------------
(* video_api.py: the body of the submit request *)

\* dict.update: the keys of later win
DictUpdate(earlier, later) == later @@ earlier

\* submit: the payload sent, a JSON object as a map from keys to values
submit_payload(prov, prompt_text, model_override, extra_options) ==
    LET with_prompt == DictUpdate(prov.extra_body, prov.prompt_field :> JStr(prompt_text))
        model == IF model_override # <<>> THEN strip(model_override)
                 ELSE strip(prov.model)
        with_model == IF model # <<>>
                      THEN DictUpdate(with_prompt, prov.model_field :> JStr(model))
                      ELSE with_prompt
    IN  IF extra_options # <<>> THEN DictUpdate(with_model, extra_options)
        ELSE with_model

S_m1 == <<"m","1">>
S_m2 == <<"m","2">>

\* provider.extra_body and extra_options: empty, a key of their own, and keys
\* that collide with the prompt and the model
ExtraBodies ==
    {<<>>, S_duration :> JNum(5), S_prompt :> JStr(S_boom),
     (S_model :> JStr(S_nsfw)) @@ (S_duration :> JNum(5))}

ExtraOptions ==
    {<<>>, S_duration :> JNum(8), S_model :> JStr(S_OK),
     (S_prompt :> JStr(S_OK)) @@ (S_aspect_ratio :> JStr(S_OK))}

BodyInit ==
    /\ FlowIdle
    /\ config = [max_poll_attempts |-> 1, default_provider_id |-> EmptyStr]
    /\ task_cache = <<>>
    /\ kv_store = <<>>
    /\ arg \in [extra_body : ExtraBodies, model : {EmptyStr, S_m1},
                model_override : {EmptyStr, <<" ">>, S_m2, <<" ">> \o S_m2 \o <<" ">>},
                extra_options : ExtraOptions, prompt : {S_cat}]
    /\ out = None

\* submit builds the payload of its request
BuildPayload ==
    /\ out = None
    /\ out' = [payload |->
                 submit_payload([ProviderConfig(S_p1, S_base1) EXCEPT
                                    !.extra_body = arg.extra_body, !.model = arg.model],
                                arg.prompt, arg.model_override, arg.extra_options)]
    /\ UNCHANGED <<task_cache, kv_store, arg>>
    /\ UNCHANGED flow_vars

BodySpec == BodyInit /\ [][BuildPayload]_vars

\* C20: the body is provider.extra_body, overlaid with the prompt, then with
\* the resolved model, then with extra_options, later layers winning.  The
\* resolved model is the override if there is one (blanks around it do not
\* count) and the provider's model otherwise; the model key is left out only
\* when both are empty.
C20_BodyLayering ==
    out # None =>
        LET resolved == IF strip(arg.model_override) # <<>> THEN strip(arg.model_override)
                        ELSE arg.model
            layers == <<arg.extra_body,
                        S_prompt :> JStr(arg.prompt),
                        IF resolved # <<>> THEN S_model :> JStr(resolved) ELSE <<>>,
                        arg.extra_options>>
            keys == UNION {DOMAIN layers[i] : i \in 1 .. 4}
            Top(k) == CHOOSE i \in 1 .. 4 :
                         /\ k \in DOMAIN layers[i]
                         /\ \A j \in 1 .. 4 : k \in DOMAIN layers[j] => j <= i
        IN  /\ DOMAIN out.payload = keys
            /\ \A k \in keys : out.payload[k] = layers[Top(k)][k]

-----------------------------------------------------------------------------
(* TaskSnapshot: to_dict, from_dict, and the record of _save_task *)

\* TaskSnapshot.to_dict
to_dict(snapshot) ==
    [provider_id |-> snapshot.provider_id,
     task_id |-> snapshot.task_id,
     status |-> snapshot.status,
     video_url |-> snapshot.video_url,
     error_message |-> snapshot.error_message,
     raw |-> snapshot.raw]

\* snapshots with string fields, empty ones included, and a mapping for raw
SnapshotInputs ==
    {TaskSnapshot(p, t, st, u, e, r) :
        p \in {EmptyStr, S_p1}, t \in {EmptyStr, S_t1},
        st \in {EmptyStr, S_queued, S_READY_padded},
        u \in {EmptyStr, S_video_url}, e \in {EmptyStr, S_boom},
        r \in {JObj(<<>>), PayloadQueued, PayloadUrlOnly}}

RoundTripInit ==
    /\ FlowIdle
    /\ config = [max_poll_attempts |-> 1, default_provider_id |-> EmptyStr]
    /\ task_cache = <<>>
    /\ kv_store = <<>>
    /\ arg \in SnapshotInputs
    /\ out = None

\* from_dict(s.to_dict())
RoundTrip ==
    /\ out = None
    /\ out' = [op |-> "dict", snapshot |-> from_dict(to_dict(arg))]
    /\ UNCHANGED <<task_cache, kv_store, arg>>
    /\ UNCHANGED flow_vars

\* _save_task(s), then _load_task(s.task_id): from the cache, or, after a
\* restart, from the store
SaveAndReload ==
    /\ out = None
    /\ \E put_ok1 \in BOOLEAN, put_ok2 \in BOOLEAN, get_ok \in BOOLEAN,
          restarted \in BOOLEAN, now \in Times :
          \E saved \in {_save_task(task_cache, kv_store, arg, S_cat, S_m1, now,
                                   put_ok1, put_ok2)} :
          \E loaded \in {_load_task(IF restarted THEN <<>> ELSE saved.cache,
                                    saved.kv, arg.task_id, get_ok)} :
             /\ task_cache' = loaded.cache
             /\ kv_store' = saved.kv
             /\ out' = [op |-> "reload", snapshot |-> loaded.snapshot,
                        restarted |-> restarted,
                        readable |-> put_ok1 /\ get_ok]
    /\ UNCHANGED arg
    /\ UNCHANGED flow_vars

RoundTripNext ==
    \/ RoundTrip
    \/ SaveAndReload

RoundTripSpec == RoundTripInit /\ [][RoundTripNext]_vars

\* C21: from_dict(s.to_dict()) equals s field for field, and so does the
\* snapshot reloaded from the record _save_task wrote for s, whether it comes
\* from the cache or from the store.
C21_RoundTrip ==
    out # None =>
        /\ out.op = "dict" => out.snapshot = arg
        /\ out.op = "reload" =>
              /\ out.snapshot # None =>
                    /\ out.snapshot.provider_id = arg.provider_id
                    /\ out.snapshot.task_id = arg.task_id
                    /\ out.snapshot.status = arg.status
                    /\ out.snapshot.video_url = arg.video_url
                    /\ out.snapshot.error_message = arg.error_message
                    /\ out.snapshot.raw = arg.raw
              /\ (arg.task_id # <<>> /\ (~out.restarted \/ out.readable)) =>
                    out.snapshot # None

\* a snapshot with a raw payload and a padded status, reloaded from the store
C21_Witness ==
    /\ out # None
    /\ out.op = "reload"
    /\ out.restarted
    /\ arg.raw = PayloadUrlOnly
    /\ arg.status = S_READY_padded
    /\ out.snapshot = arg

-----------------------------------------------------------------------------
(* extract_json_path on paths of dotted keys and bracketed indices *)

MaxPathLen == 4

\* a step of a path: a key, or an index
KeyStep(k) == [key |-> k]
IndexStep(n) == [index |-> n]
IsKeyStep(step) == "key" \in DOMAIN step

PathSteps ==
    {KeyStep(<<"a">>), KeyStep(<<"b">>), KeyStep(<<"c">>),
     IndexStep(0), IndexStep(1), IndexStep(12)}

\* the path as it is written: keys joined by dots, indices in brackets
RECURSIVE PathText(_, _)
PathText(steps, first) ==
    IF steps = <<>> THEN <<>>
    ELSE LET step == Head(steps)
         IN  (IF IsKeyStep(step)
              THEN (IF first THEN <<>> ELSE <<".">>) \o step.key
              ELSE <<"[">> \o FormatInt(step.index) \o <<"]">>)
             \o PathText(Tail(steps), FALSE)

\* value trees: the example of the specification, scalars, null leaves, lists
\* at the top and inside lists
PathTrees ==
    {JObj(<<"a">> :> JObj(<<"b">> :> JArr(<<JObj(<<>>), JObj(<<"c">> :> JStr(<<"x">>))>>))),
     JNull,
     JStr(<<"a">>),
     JArr(<<JStr(<<"x">>), JObj(<<"a">> :> JNum(0))>>),
     JObj((<<"a">> :> JNull) @@ (<<"b">> :> JStr(EmptyStr)) @@ (<<"c">> :> JArr(<<>>))),
     JObj(<<"a">> :> JArr(<<JArr(<<JNum(1), JNum(2)>>), JNull>>))}

PathInit ==
    /\ FlowIdle
    /\ config = [max_poll_attempts |-> 1, default_provider_id |-> EmptyStr]
    /\ task_cache = <<>>
    /\ kv_store = <<>>
    /\ arg \in [tree : PathTrees,
                steps : UNION {[1 .. n -> PathSteps] : n \in 0 .. MaxPathLen}]
    /\ out = None

\* extract_json_path(tree, path)
ExtractPath ==
    /\ out = None
    /\ out' = [path |-> PathText(arg.steps, TRUE),
               value |-> extract_json_path(arg.tree, PathText(arg.steps, TRUE))]
    /\ UNCHANGED <<task_cache, kv_store, arg>>
    /\ UNCHANGED flow_vars

PathSpec == PathInit /\ [][ExtractPath]_vars

\* the value a path addresses in a tree: the steps taken in order; not found
\* (null) as soon as a step cannot be taken or leads to null
RECURSIVE Addressed(_, _)
Addressed(v, steps) ==
    IF v = JNull THEN JNull
    ELSE IF steps = <<>> THEN v
    ELSE LET step == Head(steps)
         IN  IF IsKeyStep(step)
             THEN IF v.t = "obj" /\ step.key \in DOMAIN v.f
                  THEN Addressed(v.f[step.key], Tail(steps)) ELSE JNull
             ELSE IF v.t = "arr" /\ step.index < Len(v.a)
                  THEN Addressed(v.a[step.index + 1], Tail(steps)) ELSE JNull

\* C22: extract_json_path returns the value the path addresses, and not found
\* for the empty path, a null on the way, a key asked of what is not a
\* mapping, an index asked of what is not a list, and a key or index that is
\* not there.
C22_ExtractAddressedLeaf ==
    out # None =>
        /\ arg.steps = <<>> => out.value = JNull
        /\ arg.steps # <<>> => out.value = Addressed(arg.tree, arg.steps)

\* "a.b[1].c" on {a: {b: [{}, {c: "x"}]}} gives "x"
C22_Witness ==
    /\ out # None
    /\ out.path = <<"a", ".", "b", "[", "1", "]", ".", "c">>
    /\ arg.tree.t = "obj"
    /\ out.value = JStr(<<"x">>)

-----------------------------------------------------------------------------
(* Eviction from the task cache *)

\* C23: eviction is least recently inserted, and the record just saved is
\* never the one evicted: right after _save_task(T) the cache holds T's new
\* record, whatever saves and loads came before.
C23_SavedRecordIsCached ==
    (out # None /\ out.op = "save") =>
        CacheGet(task_cache, out.task_id) = out.record

-----------------------------------------------------------------------------
(* The report after polling gave up on errors *)

\* C24: when polling aborts on three consecutive query failures, the snapshot
\* it returns is classified as failed and video_gen reports a failure, not a
\* task still in progress, whatever the last known status was.
C24_AbortIsReportedFailed ==
    (pc = "done" /\ exit_line = "transient_errors") =>
        /\ _is_failed(provider, final_snapshot)
        /\ reply = "failed"

-----------------------------------------------------------------------------
(* Several polling runs interleaved at their suspension points *)

\* two video_gen handlers that have submitted and entered _wait_for_result
Jobs == {"j1", "j2"}

JobTaskId(j) == IF j = "j1" THEN S_t1 ELSE S_t2

\* what submit returned to each
JobSubmitSnapshot(j) ==
    TaskSnapshot(S_p1, JobTaskId(j), S_queued, EmptyStr, EmptyStr, JObj(<<>>))

\* answers to a status request: failure, in progress, finished
JobResponses ==
    {HttpError(S_timeout),
     JsonResponse(200, PayloadStatusOnly),
     JsonResponse(200, JObj(S_status :> JStr(S_succeeded)))}

\* consecutive_errors, the local of the run of job j, of the run that reads it
\* whatever job it is
ErrorsOfAnyRun(runs, j) ==
    LET most == CHOOSE i \in Jobs :
                    \A k \in Jobs : runs[k].consecutive_errors <= runs[i].consecutive_errors
    IN  runs[most].consecutive_errors

\* consecutive_errors as the run of job j reads it: its own local
ErrorsOfRun(runs, j) == runs[j].consecutive_errors

ConcInit ==
    /\ FlowIdle
    /\ config = [max_poll_attempts |-> 3, default_provider_id |-> S_p1]
    /\ task_cache = <<>>
    /\ kv_store = <<>>
    /\ arg = [j \in Jobs |->
                [pc |-> "sleep", attempts |-> Max(config.max_poll_attempts, 1),
                 attempt |-> 0, consecutive_errors |-> 0,
                 latest |-> JobSubmitSnapshot(j), final |-> None, outcomes |-> <<>>]]
    /\ out = None

\* await asyncio.sleep(interval) of one run ends
JobSleep ==
    /\ \E j \in Jobs :
          /\ arg[j].pc = "sleep"
          /\ arg' = [arg EXCEPT ![j].pc = "query"]
    /\ UNCHANGED <<task_cache, kv_store, out>>
    /\ UNCHANGED flow_vars

\* the query of one run returns, and the rest of its loop iteration
JobQuery ==
    /\ \E j \in Jobs, resp \in JobResponses :
          /\ arg[j].pc = "query"
          /\ LET run == arg[j]
                 prov == ProviderGet(S_p1)
                 r == query(prov, JobTaskId(j), resp)
                 errors == ErrorsOfRun(arg, j) + 1
                 last == IF r.ok THEN r.value ELSE run.latest
                 more == run.attempt + 1 < run.attempts
                 seen == [run EXCEPT !.outcomes = Append(@, r), !.latest = last,
                                     !.consecutive_errors = IF r.ok THEN 0 ELSE errors]
             IN  arg' = [arg EXCEPT ![j] =
                    IF r.ok /\ _is_terminal(prov, r.value)
                    THEN [seen EXCEPT !.pc = "returned", !.final = r.value]
                    ELSE IF ~r.ok /\ errors >= max_transient_errors
                    THEN [seen EXCEPT !.pc = "returned",
                                      !.final = SynthesizedSnapshot(run.latest, r.error)]
                    ELSE IF more
                    THEN [seen EXCEPT !.pc = "sleep", !.attempt = run.attempt + 1]
                    ELSE [seen EXCEPT !.pc = "returned", !.final = last]]
    /\ UNCHANGED <<task_cache, kv_store, out>>
    /\ UNCHANGED flow_vars

\* video_gen of one run after _wait_for_result: the final snapshot is saved
JobFinish ==
    /\ \E j \in Jobs, now \in Times :
          /\ arg[j].pc = "returned"
          /\ \E saved \in {_save_task(task_cache, kv_store, arg[j].final, S_cat,
                                      ProviderGet(S_p1).model, now, FALSE, FALSE)} :
                /\ task_cache' = saved.cache
                /\ kv_store' = saved.kv
          /\ arg' = [arg EXCEPT ![j].pc = "done"]
    /\ UNCHANGED out
    /\ UNCHANGED flow_vars

ConcNext ==
    \/ JobSleep
    \/ JobQuery
    \/ JobFinish

ConcSpec == ConcInit /\ [][ConcNext]_vars

\* the number of failures at the end of a run's own outcomes
OwnTrailingFailures(outcomes) ==
    LET ok == {i \in DOMAIN outcomes : outcomes[i].ok}
    IN  IF ok = {} THEN Len(outcomes)
        ELSE Len(outcomes) - (CHOOSE i \in ok : \A k \in ok : k <= i)

\* the last snapshot a run's own queries obtained
OwnLatest(j, outcomes) ==
    LET ok == {i \in DOMAIN outcomes : outcomes[i].ok}
    IN  IF ok = {} THEN JobSubmitSnapshot(j)
        ELSE outcomes[CHOOSE i \in ok : \A k \in ok : k <= i].value

\* a run's own outcomes end its polling: a terminal snapshot, three failures in
\* a row, or every attempt used
OwnOutcomesEnd(j, outcomes) ==
    \/ outcomes # <<>> /\ outcomes[Len(outcomes)].ok
          /\ _is_terminal(ProviderGet(S_p1), outcomes[Len(outcomes)].value)
    \/ OwnTrailingFailures(outcomes) >= max_transient_errors
    \/ Len(outcomes) = Max(config.max_poll_attempts, 1)

\* C25: interleaved runs are independent.  The attempt count, the error
\* counter and the latest snapshot of each run are what the outcomes of its own
\* queries make them, and a run ends exactly when its own outcomes end it.
C25_JobsIndependent ==
    (arg # None /\ DOMAIN arg = Jobs) =>
        \A j \in Jobs :
            LET run == arg[j]
            IN  /\ run.consecutive_errors = OwnTrailingFailures(run.outcomes)
                /\ run.latest = OwnLatest(j, run.outcomes)
                /\ run.latest.task_id = JobTaskId(j)
                /\ run.pc \in {"sleep", "query"} => run.attempt = Len(run.outcomes)
                /\ run.pc \in {"returned", "done"} <=> OwnOutcomesEnd(j, run.outcomes)
                /\ run.pc = "done" =>
                      CacheGet(task_cache, JobTaskId(j)).status = run.final.status

\* one run has given up on three failures while the other, after two failures
\* of its own, is still polling
C25_Witness ==
    /\ arg # None /\ DOMAIN arg = Jobs
    /\ arg["j2"].pc = "done"
    /\ OwnTrailingFailures(arg["j2"].outcomes) = 3
    /\ arg["j1"].pc = "sleep"
    /\ arg["j1"].consecutive_errors = 2
    /\ Len(arg["j1"].outcomes) = 2

-----------------------------------------------------------------------------
(* The provider's dicts while requests are built: objects and references *)

\* the dict objects: the two a ProviderConfig holds, and the two a request builds
Refs == {"extra_body", "extra_headers", "payload", "headers"}

\* the name on the left is bound to the object on the right, not to a copy
AliasOf(ref, new) == ref

\* dict(x): the name is bound to a new object
CopyOf(ref, new) == new

\* target = dict(heap[ref]): the heap after the statement
DictCopy(heap, ref, new) == [heap EXCEPT ![CopyOf(ref, new)] = heap[ref]]

\* ref[key] = value
HeapSet(heap, ref, key, value) == [heap EXCEPT ![ref] = DictUpdate(@, key :> value)]

\* ref.update(other)
HeapUpdate(heap, ref, other) == [heap EXCEPT ![ref] = DictUpdate(@, other)]

\* submit, lines 136 to 142, on the heap: payload is the object built
BuildSubmitBody(heap, prov, prompt_text, model_override, extra_options) ==
    LET payload == CopyOf("extra_body", "payload")
        h1 == DictCopy(heap, "extra_body", "payload")
        h2 == HeapSet(h1, payload, prov.prompt_field, JStr(prompt_text))
        model == IF model_override # <<>> THEN strip(model_override)
                 ELSE strip(prov.model)
        h3 == IF model # <<>> THEN HeapSet(h2, payload, prov.model_field, JStr(model))
              ELSE h2
    IN  [heap |-> IF extra_options # <<>> THEN HeapUpdate(h3, payload, extra_options)
                  ELSE h3,
         payload |-> payload]

S_Content_Type == <<"C","o","n","t","e","n","t","-","T","y","p","e">>
S_application_json == <<"a","p","p","l","i","c","a","t","i","o","n","/","j","s","o","n">>
S_Authorization == <<"A","u","t","h","o","r","i","z","a","t","i","o","n">>
S_Bearer == <<"B","e","a","r","e","r"," ">>

\* _build_headers on the heap: headers is a new dict
_build_headers(heap, prov, method) ==
    LET h0 == [heap EXCEPT !["headers"] = <<>>]
        h1 == IF Capitals(method) # S_GET
              THEN HeapSet(h0, "headers", S_Content_Type, S_application_json)
              ELSE h0
        h2 == IF prov.api_key # <<>>
              THEN HeapSet(h1, "headers", S_Authorization, S_Bearer \o prov.api_key)
              ELSE h1
    IN  HeapUpdate(h2, "headers", heap["extra_headers"])

\* provider.extra_headers: empty, a header of its own, one that collides
ExtraHeaders ==
    {<<>>, <<"X">> :> S_OK, S_Authorization :> S_boom}

FrameInit ==
    /\ FlowIdle
    /\ config = [max_poll_attempts |-> 1, default_provider_id |-> EmptyStr]
    /\ task_cache = <<>>
    /\ kv_store = <<>>
    /\ arg \in [extra_body : ExtraBodies, extra_headers : ExtraHeaders,
                api_key : {EmptyStr, <<"k">>}, model : {S_m1},
                status_method : {S_GET, S_POST},
                model_override : {EmptyStr, S_m2},
                extra_options : {<<>>, (S_prompt :> JStr(S_OK)) @@ (S_duration :> JNum(8))}]
    /\ out = None

\* the ProviderConfig of the run; its two dicts live on the heap
FrameProvider ==
    [ProviderConfig(S_p1, S_base1) EXCEPT
        !.api_key = arg.api_key, !.model = arg.model,
        !.status_method = arg.status_method,
        !.extra_body = arg.extra_body, !.extra_headers = arg.extra_headers]

\* the heap before the next request
FrameHeap ==
    IF out = None
    THEN [r \in Refs |-> IF r = "extra_body" THEN arg.extra_body
                         ELSE IF r = "extra_headers" THEN arg.extra_headers
                         ELSE <<>>]
    ELSE out.heap

\* submit builds its body and its headers
SubmitRequest ==
    /\ \E built \in {BuildSubmitBody(FrameHeap, FrameProvider, S_cat,
                                     arg.model_override, arg.extra_options)} :
          out' = [op |-> "submit",
                  heap |-> _build_headers(built.heap, FrameProvider,
                                          FrameProvider.submit_method)]
    /\ UNCHANGED <<task_cache, kv_store, arg>>
    /\ UNCHANGED flow_vars

\* query builds its headers, and a body of its own when the method is not GET
QueryRequest ==
    /\ LET json_payload == IF Capitals(FrameProvider.status_method) # S_GET
                           THEN S_id :> JStr(S_t1) ELSE <<>>
           h == [FrameHeap EXCEPT !["payload"] = json_payload]
       IN  out' = [op |-> "query",
                   heap |-> _build_headers(h, FrameProvider, FrameProvider.status_method)]
    /\ UNCHANGED <<task_cache, kv_store, arg>>
    /\ UNCHANGED flow_vars

FrameNext ==
    \/ SubmitRequest
    \/ QueryRequest

FrameSpec == FrameInit /\ [][FrameNext]_vars

\* C26: building requests leaves the provider's dicts as they were loaded:
\* extra_body also when the prompt, the model or extra_options overwrite keys
\* it contains, extra_headers also when it repeats a header the request sets;
\* and the body built is the layered one.
C26_ProviderUnchanged ==
    out # None =>
        /\ out.heap["extra_body"] = arg.extra_body
        /\ out.heap["extra_headers"] = arg.extra_headers
        /\ out.op = "submit" =>
              out.heap["payload"] =
                  submit_payload(FrameProvider, S_cat, arg.model_override,
                                 arg.extra_options)

\* extra_body has a model key and a submit with an override has been built
C26_Witness ==
    /\ out # None
    /\ out.op = "submit"
    /\ arg.model_override = S_m2
    /\ S_model \in DOMAIN arg.extra_body
    /\ arg.extra_body[S_model] = JStr(S_nsfw)
    /\ out.heap["payload"][S_model] = JStr(S_m2)
    /\ out.heap["extra_body"][S_model] = JStr(S_nsfw)
    /\ arg.extra_headers = (S_Authorization :> S_boom)
    /\ out.heap["headers"][S_Authorization] = S_boom

-----------------------------------------------------------------------------
(* A status query for a task whose video_gen run is still polling *)

\* video_status (or video_query_status) asks for the running task's id while
\* the run sleeps or waits for its query; what it saved is noted
StatusQuery ==
    /\ arg = None
    /\ pc \in {"sleep", "query"}
    /\ \E resp \in StatusResponses \cup {JsonResponse(200, PayloadSucceeded)},
          now \in Times, put_ok \in BOOLEAN :
          \E done \in {video_status(task_cache, kv_store, submit_snapshot.task_id, FALSE,
                                    FALSE, resp, now, put_ok, put_ok, FALSE)} :
             /\ task_cache' = done.cache
             /\ kv_store' = done.kv
             /\ arg' = [asked |-> submit_snapshot.task_id,
                        saved_terminal |->
                            /\ done.reply \in {"completed_video", "completed_text", "status"}
                            /\ InCache(done.cache, submit_snapshot.task_id)
                            /\ _is_terminal(provider,
                                   from_dict(CacheGet(done.cache, submit_snapshot.task_id)))]
    /\ UNCHANGED out
    /\ UNCHANGED flow_vars

RegressInit ==
    /\ Init
    /\ config.max_poll_attempts = 2

RegressNext ==
    \/ Next
    \/ StatusQuery

RegressSpec == RegressInit /\ [][RegressNext]_vars

\* C27: once a terminal snapshot of a task has been saved, the cache never
\* again holds a snapshot of that task that is not terminal, also when the
\* polling run ends by its budget or by three failures and saves what it last
\* knew.
C27_NoRegression ==
    (arg # None /\ arg.saved_terminal) =>
        /\ InCache(task_cache, arg.asked)
        /\ _is_terminal(provider, from_dict(CacheGet(task_cache, arg.asked)))

====
